---- MODULE Spec2Model ----
(***************************************************************************)
(* Scan execution subsystem of Geek-Rank-Radar-Backend: the per-engine     *)
(* ScanQueue, the engines' throttle state, the ScanOrchestrator (scan      *)
(* creation, task handler, monitors, orphan recovery) and the scan rows    *)
(* of the database.                                                        *)
(*                                                                         *)
(* Asynchronous functions are cut at their await points: every action is   *)
(* the synchronous run of one continuation, database operations execute    *)
(* atomically at one of those points.                                      *)
(***************************************************************************)
EXTENDS Integers, Sequences, FiniteSets, Bags, TLC

(***************************************************************************)
(* Bounds of the model.                                                    *)
(***************************************************************************)
\* number of tasks the queue harness (SpecQueue) enqueues
MaxTasks == 3
\* priorities the queue harness draws from (1..MaxPriority)
MaxPriority == 2
\* stand-in for throttle.maxPerHour (40 .. 500 in ENGINE_CONFIGS)
MaxPerHour == 2
\* stand-in for throttle.maxPerDay and GOOGLE_COMBINED_DAILY_LIMIT (200)
DailyLimit == 2
\* scans the database can hold
MaxScans == 1
\* grid sizes a request draws from (1..MaxGridSize)
MaxGridSize == 2
\* poll iterations of a monitor before its hard timeout
\* (stand-in for SCAN_TIMEOUT_MS / POLL_INTERVAL_MS)
MaxPolls == 1
\* process restarts
MaxRestarts == 1
\* DELETE /api/scans/:id requests
MaxCancels == 1
\* concurrent invocations of the task handler in the handler harness
MaxWorkers == 3
\* the last instant of the clock of the block-policy harness, in quarter hours
MaxTime == 200
\* ScanSchedule rows
MaxSchedules == 2
\* calls of start, reloadSchedule and reloadAll
MaxSchedCalls == 3
\* updates of a ScanSchedule row by the schedule routes
MaxSchedEdits == 1
\* characters of a business name
MaxNameLen == 4
\* BusinessMatcher.findOrCreate calls
MaxResolves == 2
\* search() calls made on the engine observed with its clock
MaxSearches == 3
\* task handlers that call BusinessMatcher.findOrCreate at the same time
MaxHandlers == 2

(***************************************************************************)
(* Engines registered by the orchestrator (three of them are modelled:     *)
(* two of the Google reputation group, one outside it).                    *)
(***************************************************************************)
Engines == {"google_search", "google_local", "duckduckgo"}

GOOGLE_ENGINE_IDS == {"google_search", "google_maps", "google_local"}

\* engines the scan requests of the application model name
RequestEngines == {"google_search"}

VARIABLES
    \* ---- ScanQueue
    queues,             \* engineId -> sequence of ScanTask
    processingEngines,  \* set of engineIds
    stopped,            \* BOOLEAN
    retryTimers,        \* engineIds with a pending one-shot retry timer
    workers,            \* worker loops suspended in `await onTaskComplete(task)`
    dispatched,         \* history: tasks handed to the handler, per engine, in order
    nextSeq,            \* history: number of tasks enqueued so far (enqueue order)
    \* ---- BaseEngine.state, per engine
    engineState,
    \* ---- database
    scans,              \* scan id -> Scan row (status "none": no such row)
    points,             \* scan id -> point number -> ScanPoint status
    \* ---- ScanOrchestrator and routes: asynchronous calls in progress
    requests,           \* createScan / createFullScan calls
    monitors,           \* monitorScan / monitorFullScan loops
    cancels,            \* DELETE requests between their read and their write
    recovery,           \* recoverOrphanedScans
    \* ---- environment
    faults,             \* [restarts, cancels]: events used so far
    \* ---- one engine object observed over time (block policy)
    now,                \* Date.now(), in quarter hours
    captcha,            \* the engine's id and its CAPTCHA bookkeeping
    \* ---- ScanScheduler and the ScanSchedule rows
    schedRows,          \* schedule id -> [isActive, valid] (the database)
    jobs,               \* ScanScheduler.jobs: schedule id -> cron task (0: no entry)
    cronTasks,          \* the cron tasks that are scheduled and not stopped
    schedCalls,         \* start / reloadSchedule calls suspended in their query
    schedCount,         \* [tasks, calls, edits]: events used so far
    fired,              \* schedule id -> executeSchedule calls of the latest cron tick
    \* ---- the process (index.ts)
    proc,               \* "running", "disconnecting" (shutdown awaits), "exited"
    \* ---- scan creation observed from its callers
    catalog,            \* service areas and categories of the database
    created,            \* bag of the Scan rows persisted
    tasksQueued,        \* number of tasks handed to enqueueBatch
    monitorsSpawned,    \* [single, batch]: monitor loops started
    lastCall,           \* the latest creation call and how it ended
    \* ---- BusinessMatcher and the Business rows
    businesses,         \* set of Business rows
    matchClock,         \* new Date() at the next call
    lastMatch,          \* the latest findOrCreate call and its result
    \* ---- utils/text
    text,               \* a name, normalised once and twice
    \* ---- one engine object with its clock (counters and error streak)
    engine,             \* BaseEngine.state: counters, error streak, reset instants
    engineCall,         \* the search call in progress and the latest result
    \* ---- BusinessMatcher.findOrCreate calls running concurrently
    resolving           \* handler -> the call it is in (<<>>: none started)

queueVars == <<queues, processingEngines, stopped, retryTimers, workers, dispatched, nextSeq>>
dbVars    == <<scans, points>>
orchVars  == <<requests, monitors, cancels, recovery, faults>>
blockVars == <<now, captcha>>
schedVars == <<schedRows, jobs, cronTasks, schedCalls, schedCount, fired>>
createVars == <<catalog, created, tasksQueued, monitorsSpawned, lastCall>>
matchVars == <<businesses, matchClock, lastMatch>>
\* what the scan execution subsystem leaves alone
lateVars == <<engine, engineCall, resolving>>
extVars == <<schedVars, proc, createVars, matchVars, text, lateVars>>
sideVars == <<blockVars, extVars>>
\* the scan execution subsystem
appVars == <<queueVars, engineState, dbVars, orchVars, blockVars>>
vars == <<queues, processingEngines, stopped, retryTimers, workers, dispatched, nextSeq,
          engineState, scans, points, requests, monitors, cancels, recovery, faults,
          now, captcha, schedRows, jobs, cronTasks, schedCalls, schedCount, fired,
          proc, catalog, created, tasksQueued, monitorsSpawned, lastCall,
          businesses, matchClock, lastMatch, text, engine, engineCall, resolving>>

(***************************************************************************)
(* BaseEngine: status derivation.  `blocked` stands for "blockedUntil is   *)
(* set and lies in the future".                                            *)
(***************************************************************************)
getStatus(st) ==
    IF st.blocked THEN "blocked"
    ELSE IF st.requestsThisHour >= MaxPerHour \/ st.requestsToday >= DailyLimit
         THEN "throttled"
    ELSE "healthy"

\* an engine that lets a throttled engine make requests
NotBlocked(st) == getStatus(st) # "blocked"

canMakeRequest(st) == getStatus(st) = "healthy"

recordRequest(st) ==
    [st EXCEPT !.requestsThisHour = @ + 1, !.requestsToday = @ + 1]

\* a CAPTCHA response that leaves the engine's state alone
LeaveUnblocked(st) == st

markBlocked(st) == [st EXCEPT !.blocked = TRUE]

\* ScanOrchestrator.getGoogleDailyTotal: requestsToday summed over the Google engines
RECURSIVE SumToday(_, _)
SumToday(es, S) ==
    IF S = {} THEN 0
    ELSE LET e == CHOOSE x \in S : TRUE
         IN es[e].requestsToday + SumToday(es, S \ {e})

getGoogleDailyTotal(es) == SumToday(es, Engines \cap GOOGLE_ENGINE_IDS)

isGoogleEngine(e) == e \in GOOGLE_ENGINE_IDS

\* a queue that has no group-daily-total callback
GroupLimitIgnored(es) == FALSE

isGoogleLimitReached(es) == getGoogleDailyTotal(es) >= DailyLimit

(***************************************************************************)
(* ScanQueue.                                                              *)
(***************************************************************************)
\* Array.prototype.sort((a, b) => b.priority - a.priority) is a stable sort:
\* the element at index i comes after the elements of higher priority and
\* after the elements of its own priority that precede it in the array.
\* SortRank is the 1-based position it is moved to.

\* a sort that reverses the elements of equal priority
SortRankReversing(q, i) ==
    Cardinality({j \in 1..Len(q) : q[j].priority > q[i].priority})
      + Cardinality({j \in i..Len(q) : q[j].priority = q[i].priority})

SortRank(q, i) ==
    Cardinality({j \in 1..Len(q) : q[j].priority > q[i].priority})
      + Cardinality({j \in 1..i : q[j].priority = q[i].priority})

SortByPriority(q) ==
    [k \in 1..Len(q) |-> q[CHOOSE i \in 1..Len(q) : SortRank(q, i) = k]]

\* enqueue(task): push, then sort
enqueue(qs, task) ==
    IF task.engineId \notin DOMAIN qs THEN qs
    ELSE [qs EXCEPT ![task.engineId] = SortByPriority(Append(@, task))]

\* the for loop of enqueueBatch; the k-th task gets enqueue number base + k
enqueueAll(qs, tasks, base) ==
    LET after[k \in 0..Len(tasks)] ==
            IF k = 0 THEN qs
            ELSE enqueue(after[k - 1], [tasks[k] EXCEPT !.seq = base + k])
    IN  after[Len(tasks)]

\* the two pause checks at the head of the worker loop
\* (es is the engines' state at the time of the check)
CanDispatch(es, e) ==
    canMakeRequest(es[e]) /\ ~(isGoogleEngine(e) /\ isGoogleLimitReached(es))

\* one evaluation of the loop head of processEngine for a queue q
LoopKind(es, e, q, stp) ==
    IF Len(q) > 0 /\ ~stp
    THEN IF CanDispatch(es, e) THEN "dispatch" ELSE "paused"
    ELSE "exit"

NewWorker(e, task) ==
    [engine |-> e, task |-> task, phase |-> "search", outcome |-> "none", readCompleted |-> 0]

\* the retry timers after the workers of the engines `paused` left their loop
\* with tasks still queued: one one-shot timer per engine
ScheduleRetry(rt, paused) == rt \cup paused

\* ensureProcessing on queues qs with pending timers rt: every engine with a
\* non-empty queue that is not in processingEngines gets a worker, which runs
\* synchronously up to its first await (a dispatched task) or to its exit.
EnsureProcessingOn(qs, rt) ==
    LET started == {e \in Engines : Len(qs[e]) > 0 /\ e \notin processingEngines}
        going   == {e \in started : CanDispatch(engineState, e)}
    IN  /\ stopped' = FALSE
        /\ queues' = [e \in Engines |-> IF e \in going THEN Tail(qs[e]) ELSE qs[e]]
        /\ processingEngines' = processingEngines \cup going
        /\ workers' = workers \cup {NewWorker(e, Head(qs[e])) : e \in going}
        /\ dispatched' = [e \in Engines |->
                            IF e \in going THEN Append(dispatched[e], Head(qs[e]))
                            ELSE dispatched[e]]
        /\ retryTimers' = ScheduleRetry(rt, started \ going)

\* enqueueBatch(tasks): the for loop, then ensureProcessing on its result
\* (batch and qs bind the values, so that each is evaluated once)
EnqueueBatchOp(tasks) ==
    \E batch \in {tasks} :
        \E qs \in {enqueueAll(queues, batch, nextSeq)} :
            /\ nextSeq' = nextSeq + Len(batch)
            /\ EnsureProcessingOn(qs, retryTimers)

\* the worker of w.engine resumes after `await onTaskComplete(task)` returned
\* or threw (the error is logged): the loop goes round or the worker exits
WorkerContinue(w, es) ==
    LET e    == w.engine
        kind == LoopKind(es, e, queues[e], stopped)
    IN  /\ w \in workers
        /\ IF kind = "dispatch"
           THEN /\ queues' = [queues EXCEPT ![e] = Tail(@)]
                /\ workers' = (workers \ {w}) \cup {NewWorker(e, Head(queues[e]))}
                /\ dispatched' = [dispatched EXCEPT ![e] = Append(@, Head(queues[e]))]
                /\ UNCHANGED <<processingEngines, retryTimers>>
           ELSE /\ workers' = workers \ {w}
                /\ processingEngines' = processingEngines \ {e}
                /\ retryTimers' = IF kind = "paused" THEN ScheduleRetry(retryTimers, {e})
                                  ELSE retryTimers
                /\ UNCHANGED <<queues, dispatched>>
        /\ UNCHANGED <<stopped, nextSeq>>

\* stop()
StopOp ==
    /\ stopped' = TRUE
    /\ queues' = [e \in Engines |-> <<>>]
    /\ processingEngines' = {}
    /\ retryTimers' = {}
    /\ UNCHANGED <<workers, dispatched, nextSeq>>

hasRetryTimer(e) == e \in retryTimers

getQueueDepth(e) == Len(queues[e])

(***************************************************************************)
(* Queue harness: the public operations of a ScanQueue called in any       *)
(* order, with a task handler that performs the engine request.            *)
(***************************************************************************)
InitQueue ==
    /\ queues = [e \in Engines |-> <<>>]
    /\ processingEngines = {}
    /\ stopped = FALSE
    /\ retryTimers = {}
    /\ workers = {}
    /\ dispatched = [e \in Engines |-> <<>>]
    /\ nextSeq = 0

\* BaseEngine constructor
FreshEngines ==
    [e \in Engines |-> [blocked |-> FALSE, requestsThisHour |-> 0, requestsToday |-> 0]]

InitEngines == engineState = FreshEngines

HarnessTask(e, p) == [scanId |-> 0, scanPointId |-> 0, engineId |-> e, priority |-> p, seq |-> 0]

QEnqueueBatch ==
    /\ UNCHANGED sideVars
    /\ UNCHANGED <<dbVars, orchVars>>
    /\ \E e1 \in Engines, p1 \in 1..MaxPriority, e2 \in Engines, p2 \in 1..MaxPriority,
          n \in 1..2 :
          /\ nextSeq + n <= MaxTasks
          /\ EnqueueBatchOp(SubSeq(<<HarnessTask(e1, p1), HarnessTask(e2, p2)>>, 1, n))
    /\ UNCHANGED engineState

QEnsureProcessing ==
    /\ UNCHANGED sideVars
    /\ EnsureProcessingOn(queues, retryTimers)
    /\ UNCHANGED <<nextSeq, engineState, dbVars, orchVars>>

QStop ==
    /\ UNCHANGED sideVars
    /\ StopOp
    /\ UNCHANGED <<engineState, dbVars, orchVars>>

\* BaseEngine.detectCaptcha.  A body is the set of the phrases it contains.
captchaPatterns ==
    {"unusual traffic", "captcha", "Our systems have detected", "sorry/index", "recaptcha"}

\* String.prototype.toLowerCase on the phrases of the model
toLowerCase(phrase) ==
    CASE phrase = "Our systems have detected" -> "our systems have detected"
      [] phrase = "Unusual Traffic"           -> "unusual traffic"
      [] OTHER                                -> phrase

detectCaptcha(body) ==
    \E pattern \in captchaPatterns, phrase \in body :
        toLowerCase(phrase) = toLowerCase(pattern)

\* what axios.get settles with: an HTTP status (500 stands for every failure
\* other than 429, a network error included) and the phrases of the body
Bodies == {{"plumber"}, {"Unusual Traffic"}}

Responses == [status : {200, 429, 500}, body : Bodies]

\* axios rejects every status outside 2xx, so the body is inspected only for 200
SearchOutcome(resp) ==
    IF resp.status = 200
    THEN IF detectCaptcha(resp.body) THEN "captcha" ELSE "ok"
    ELSE IF resp.status = 429 THEN "ratelimited" ELSE "error"

\* the engines whose catch block treats HTTP 429 as a block
BlocksOn429 == {"google_search"}

\* engine.search settles: a counted request ("ok"), a CAPTCHA page (the engine
\* is blocked, an empty result is returned), HTTP 429 (the error is rethrown,
\* after the engine is blocked if it is google_search) or any other error
\* (rethrown)
SearchEffect(e, st, outcome) ==
    CASE outcome = "ok"          -> recordRequest(st)
      [] outcome = "captcha"     -> markBlocked(st)
      [] outcome = "ratelimited" -> IF e \in BlocksOn429 THEN markBlocked(st) ELSE st
      [] OTHER                   -> st

SearchOutcomes == {"ok", "captcha", "ratelimited", "error"}

\* the outcomes with which engine.search throws
Throws == {"ratelimited", "error"}

\* the SERPResult engine.search returns when it does not throw
SearchResult(resp) ==
    IF SearchOutcome(resp) = "captcha"
    THEN [businesses |-> {}, organicResults |-> {}, captchaDetected |-> TRUE]
    ELSE [businesses |-> resp.body, organicResults |-> {}, captchaDetected |-> FALSE]

QHandlerReturns ==
    /\ UNCHANGED sideVars
    /\ \E w \in workers, resp \in Responses :
           /\ engineState' = [engineState EXCEPT ![w.engine] =
                                 SearchEffect(w.engine, @, SearchOutcome(resp))]
           /\ WorkerContinue(w, engineState')
           /\ UNCHANGED <<dbVars, orchVars>>

(***************************************************************************)
(* Database rows.                                                          *)
(***************************************************************************)
ScanIds  == 1..MaxScans
PointIds == 1..(MaxGridSize * MaxGridSize)

Terminal    == {"completed", "failed", "cancelled"}
NonTerminal == {"queued", "running"}

NoScan ==
    [status |-> "none", searchEngine |-> "none", gridSize |-> 0, pointsTotal |-> 0,
     pointsCompleted |-> 0, errorMessage |-> "null", startedAt |-> FALSE,
     completedAt |-> FALSE]

Existing == {s \in ScanIds : scans[s].status # "none"}

\* prisma.scan.create in createScanRecord
NewScanRow(e, g) ==
    [status |-> "queued", searchEngine |-> e, gridSize |-> g, pointsTotal |-> g * g,
     pointsCompleted |-> 0, errorMessage |-> "null", startedAt |-> FALSE,
     completedAt |-> FALSE]

\* a read-modify-write of the counter: the value the handler read, plus one
IncrementReadModifyWrite(row, w) == [row EXCEPT !.pointsCompleted = w.readCompleted + 1]

\* data: { pointsCompleted: { increment: 1 } }, executed by the database;
\* w is the handler invocation that issues it
IncrementCompleted(row, w) == [row EXCEPT !.pointsCompleted = @ + 1]

\* a catch block that marks the point failed and leaves the counter alone
CatchNoIncrement(row, w) == row

\* the update the catch block of executeTask issues after marking the point failed
CatchIncrement(row, w) == IncrementCompleted(row, w)

\* a grid whose points all lie in row 0
OneRowGrid(gridSize) ==
    [i \in 1..(gridSize * gridSize) |-> [row |-> 0, col |-> (i - 1) % gridSize]]

\* generateGrid: the cells in the order of the two nested loops, rows outside
\* (the coordinates of a cell play no part in the scan's bookkeeping)
generateGrid(gridSize) ==
    [i \in 1..(gridSize * gridSize) |->
        [row |-> (i - 1) \div gridSize, col |-> (i - 1) % gridSize]]

\* one task per ScanPoint, priority 1, in the order of the points
TasksFor(s, e, ps) ==
    [i \in 1..Cardinality(ps) |->
        [scanId |-> s,
         scanPointId |-> CHOOSE p \in ps : Cardinality({q \in ps : q < p}) = i - 1,
         engineId |-> e, priority |-> 1, seq |-> 0]]

(***************************************************************************)
(* ScanOrchestrator.executeTask, the task handler of the queue.            *)
(***************************************************************************)
\* engine.search settles; the ScanPoint is marked completed (search returned,
\* also with a CAPTCHA result) or failed (search threw)
TaskSearchDone ==
    /\ UNCHANGED sideVars
    /\ \E w \in workers, resp \in Responses :
           LET s       == w.task.scanId
               p       == w.task.scanPointId
               outcome == SearchOutcome(resp)
           IN  /\ w.phase = "search"
               /\ s \in ScanIds
               /\ engineState' = [engineState EXCEPT ![w.engine] =
                                     SearchEffect(w.engine, @, outcome)]
               /\ points' = [points EXCEPT ![s][p] =
                               IF outcome \in Throws THEN "failed" ELSE "completed"]
               /\ workers' = (workers \ {w}) \cup
                               {[w EXCEPT !.phase = "count", !.outcome = outcome,
                                          !.readCompleted = scans[s].pointsCompleted]}
               /\ UNCHANGED <<queues, processingEngines, stopped, retryTimers, dispatched,
                              nextSeq, scans, orchVars>>

\* the counter update of executeTask: the last statement of the try block, or
\* of the catch block when the search threw
CountPoint(w) ==
    scans' = [scans EXCEPT ![w.task.scanId] =
                 IF w.outcome \in Throws THEN CatchIncrement(@, w)
                 ELSE IncrementCompleted(@, w)]

\* the counter update executes, executeTask returns and the worker loop goes on
TaskCounted ==
    /\ UNCHANGED sideVars
    /\ \E w \in workers :
           /\ w.phase = "count"
           /\ CountPoint(w)
           /\ WorkerContinue(w, engineState)
           /\ UNCHANGED <<engineState, points, orchVars>>

(***************************************************************************)
(* ScanOrchestrator.createScan / createFullScan / createScanRecord.        *)
(***************************************************************************)
NewMonitor(kind, ids) ==
    [kind |-> kind, ids |-> ids, scanIdSet |-> ids, phase |-> "sleep",
     snap |-> [s \in ScanIds |-> -1], polls |-> 0]

NextScanId == Cardinality(Existing) + 1

\* a request arrives and createScanRecord persists the Scan (queued);
\* kind "single" is createScan, kind "full" is createFullScan (one combination
\* of category and engine)
CreateScan ==
    /\ UNCHANGED sideVars
    /\ \E kind \in {"single", "full"}, e \in RequestEngines, g \in 1..MaxGridSize :
           /\ Cardinality(Existing) < MaxScans
           /\ scans' = [scans EXCEPT ![NextScanId] = NewScanRow(e, g)]
           /\ requests' = requests \cup {[kind |-> kind, scan |-> NextScanId, phase |-> "created"]}
           /\ UNCHANGED <<queueVars, engineState, points, monitors, cancels, recovery, faults>>

\* the ScanPoints are persisted (pending), the p-th of them for the p-th cell
\* of generateGrid, and their tasks enqueued
CreatePoints ==
    /\ UNCHANGED sideVars
    /\ \E r \in requests :
           LET s  == r.scan
               ps == DOMAIN generateGrid(scans[s].gridSize)
           IN  /\ r.phase = "created"
               /\ points' = [points EXCEPT ![s] =
                               [p \in PointIds |-> IF p \in ps THEN "pending" ELSE "none"]]
               /\ EnqueueBatchOp(TasksFor(s, scans[s].searchEngine, ps))
               /\ requests' = (requests \ {r}) \cup {[r EXCEPT !.phase = "enqueued"]}
               /\ UNCHANGED <<engineState, scans, monitors, cancels, recovery, faults>>

\* the update that marks the scan running; then the caller spawns the monitor
\* (createScan: monitorScan, createFullScan: monitorFullScan)
MarkRunning ==
    /\ UNCHANGED sideVars
    /\ \E r \in requests :
           LET s == r.scan
           IN  /\ r.phase = "enqueued"
               /\ scans' = [scans EXCEPT ![s].status = "running", ![s].startedAt = TRUE]
               /\ requests' = requests \ {r}
               /\ monitors' = monitors \cup
                     {NewMonitor(IF r.kind = "single" THEN "single" ELSE "batch", {s})}
               /\ UNCHANGED <<queueVars, engineState, points, cancels, recovery, faults>>

(***************************************************************************)
(* ScanOrchestrator.monitorScan / monitorFullScan.  One loop iteration is  *)
(* two steps: the database read, then the decision (which reads the queue) *)
(* with its updates.  The loop condition `Date.now() - startTime < TIMEOUT`*)
(* holds for MaxPolls iterations.                                          *)
(***************************************************************************)
\* an idleness test that looks at the worker only
EngineNotProcessing(e) == e \notin processingEngines

\* an idleness test that also gives up on a blocked engine
BlockedOrIdle(e) ==
    \/ getStatus(engineState[e]) = "blocked"
    \/ getQueueDepth(e) = 0 /\ e \notin processingEngines /\ ~hasRetryTimer(e)

\* queueDepth === 0 && !isEngineProcessing && !hasRetry
EngineIdle(e) ==
    getQueueDepth(e) = 0 /\ e \notin processingEngines /\ ~hasRetryTimer(e)

MonitorRead ==
    /\ UNCHANGED sideVars
    /\ \E m \in monitors :
           LET active == {s \in m.ids : scans[s].status \in NonTerminal}
           IN  /\ m.phase = "sleep"
               /\ m.polls < MaxPolls
               /\ IF m.kind = "batch" /\ active = {}
                  THEN monitors' = monitors \ {m}
                  ELSE monitors' = (monitors \ {m}) \cup
                         {[m EXCEPT !.phase = "read",
                                    !.snap = [s \in ScanIds |->
                                       IF s \in (IF m.kind = "batch" THEN active ELSE m.ids)
                                       THEN scans[s].pointsCompleted ELSE -1]]}
               /\ UNCHANGED <<queueVars, engineState, dbVars, requests, cancels, recovery, faults>>

\* monitorScan, lines 369-398
SingleDecide(m) ==
    LET s == CHOOSE x \in m.ids : TRUE
        e == scans[s].searchEngine
    IN  IF m.snap[s] >= scans[s].pointsTotal
        THEN /\ scans' = [scans EXCEPT ![s].status = "completed", ![s].completedAt = TRUE]
             /\ monitors' = monitors \ {m}
        ELSE IF EngineIdle(e)
        THEN /\ scans' = [scans EXCEPT ![s].status = "failed", ![s].completedAt = TRUE,
                                       ![s].errorMessage = "Only x/y points completed"]
             /\ monitors' = monitors \ {m}
        ELSE /\ monitors' = (monitors \ {m}) \cup
                              {[m EXCEPT !.phase = "sleep", !.polls = @ + 1]}
             /\ UNCHANGED scans

\* monitorFullScan, lines 459-508
BatchDecide(m) ==
    LET active       == {s \in ScanIds : m.snap[s] >= 0}
        completedNow == {s \in active : m.snap[s] >= scans[s].pointsTotal}
        failedNow    == {s \in active \ completedNow : EngineIdle(scans[s].searchEngine)}
    IN  /\ scans' = [s \in ScanIds |->
                       IF s \in completedNow
                       THEN [scans[s] EXCEPT !.status = "completed", !.completedAt = TRUE]
                       ELSE IF s \in failedNow
                       THEN [scans[s] EXCEPT !.status = "failed", !.completedAt = TRUE,
                               !.errorMessage = "Engine queue empty before all points completed"]
                       ELSE scans[s]]
        /\ monitors' = (monitors \ {m}) \cup
                         {[m EXCEPT !.phase = "sleep", !.polls = @ + 1,
                                    !.scanIdSet = @ \ (completedNow \cup failedNow)]}

MonitorDecide ==
    /\ UNCHANGED sideVars
    /\ \E m \in monitors :
           /\ m.phase = "read"
           /\ IF m.kind = "single" THEN SingleDecide(m) ELSE BatchDecide(m)
           /\ UNCHANGED <<queueVars, engineState, points, requests, cancels, recovery, faults>>

\* the loop condition fails: the hard timeout
MonitorTimeout ==
    /\ UNCHANGED sideVars
    /\ \E m \in monitors :
           /\ m.phase = "sleep"
           /\ m.polls >= MaxPolls
           /\ scans' = [s \in ScanIds |->
                 IF m.kind = "single" /\ s \in m.ids
                 THEN [scans[s] EXCEPT !.status = "failed", !.completedAt = TRUE,
                                       !.errorMessage = "Scan timed out after 30 minutes"]
                 ELSE IF m.kind = "batch" /\ s \in m.scanIdSet /\ scans[s].status \in NonTerminal
                 THEN [scans[s] EXCEPT !.status = "failed", !.completedAt = TRUE,
                                       !.errorMessage = "Full scan timed out after 6 hours"]
                 ELSE scans[s]]
           /\ monitors' = monitors \ {m}
           /\ UNCHANGED <<queueVars, engineState, points, requests, cancels, recovery, faults>>

\* a database read of the monitor throws: the catch block around the loop.
\* monitorScan marks the scan failed with the error's message, monitorFullScan
\* only logs; either way the loop is left.
MonitorDbError ==
    /\ UNCHANGED sideVars
    /\ \E m \in monitors :
           /\ m.phase = "sleep"
           /\ m.polls < MaxPolls
           /\ scans' = [s \in ScanIds |->
                 IF m.kind = "single" /\ s \in m.ids
                 THEN [scans[s] EXCEPT !.status = "failed", !.completedAt = TRUE,
                                       !.errorMessage = "database error"]
                 ELSE scans[s]]
           /\ monitors' = monitors \ {m}
           /\ UNCHANGED <<queueVars, engineState, points, requests, cancels, recovery, faults>>

(***************************************************************************)
(* DELETE /api/scans/:id.                                                  *)
(***************************************************************************)
\* findUnique and the status check
CancelCheck ==
    /\ UNCHANGED sideVars
    /\ \E s \in Existing :
           /\ faults.cancels < MaxCancels
           /\ scans[s].status \notin {"completed", "failed"}
           /\ cancels' = cancels \cup {s}
           /\ faults' = [faults EXCEPT !.cancels = @ + 1]
           /\ UNCHANGED <<queueVars, engineState, dbVars, requests, monitors, recovery>>

\* the update
CancelWrite ==
    /\ UNCHANGED sideVars
    /\ \E s \in cancels :
           /\ scans' = [scans EXCEPT ![s].status = "cancelled", ![s].completedAt = TRUE]
           /\ cancels' = cancels \ {s}
           /\ UNCHANGED <<queueVars, engineState, points, requests, monitors, recovery, faults>>

(***************************************************************************)
(* Process restart and ScanOrchestrator.recoverOrphanedScans.              *)
(***************************************************************************)
NoRecovery == [todo |-> {}, all |-> {}]

\* a recovery that re-queues every point of the scan
EveryPoint(s) == {p \in PointIds : points[s][p] # "none"}

\* scanPoint.findMany({ where: { scanId, status: { in: ['pending', 'running'] } } })
PendingPoints(s) == {p \in PointIds : points[s][p] \in {"pending", "running"}}

\* The process ends (whatever it was doing) and starts again: the objects of
\* the new process are freshly constructed, the database is what it was.
\* The listen callback calls recoverOrphanedScans, whose findMany is the
\* first query the new process issues: it is taken to read the database
\* before any request of the new process has written to it.
Restart ==
    /\ UNCHANGED sideVars
    /\ LET orphanedScans == {s \in ScanIds : scans[s].status \in NonTerminal}
       IN  /\ faults.restarts < MaxRestarts
           /\ faults' = [faults EXCEPT !.restarts = @ + 1]
           /\ queues' = [e \in Engines |-> <<>>]
           /\ processingEngines' = {}
           /\ stopped' = FALSE
           /\ retryTimers' = {}
           /\ workers' = {}
           /\ dispatched' = [e \in Engines |-> <<>>]
           /\ nextSeq' = 0
           /\ engineState' = FreshEngines
           /\ requests' = {}
           /\ monitors' = {}
           /\ cancels' = {}
           /\ recovery' = [todo |-> orphanedScans, all |-> orphanedScans]
           /\ UNCHANGED dbVars

\* one iteration of the for loop of recoverOrphanedScans; after the last one
\* the batch monitor of the recovered scans is started
RecoverScan ==
    /\ UNCHANGED sideVars
    /\ \E s \in recovery.todo :
           LET pendingPoints == PendingPoints(s)
               todo          == recovery.todo \ {s}
           IN  /\ IF pendingPoints = {}
                  THEN /\ scans' = [scans EXCEPT ![s].status = "completed",
                                                 ![s].completedAt = TRUE]
                       /\ UNCHANGED queueVars
                  ELSE /\ scans' = [scans EXCEPT ![s].status = "running"]
                       /\ EnqueueBatchOp(TasksFor(s, scans[s].searchEngine, pendingPoints))
               /\ IF todo = {}
                  THEN /\ monitors' = monitors \cup {NewMonitor("batch", recovery.all)}
                       /\ recovery' = NoRecovery
                  ELSE /\ recovery' = [recovery EXCEPT !.todo = todo]
                       /\ UNCHANGED monitors
               /\ UNCHANGED <<engineState, points, requests, cancels, faults>>

(***************************************************************************)
(* Time passes for an engine (BaseEngine.refreshBuckets, run before every  *)
(* read of the state).                                                     *)
(***************************************************************************)
refreshBuckets(st, what) ==
    CASE what = "hour"  -> [st EXCEPT !.requestsThisHour = 0]
      [] what = "day"   -> [st EXCEPT !.requestsToday = 0]
      [] what = "block" -> [st EXCEPT !.blocked = FALSE]

TimePasses ==
    /\ UNCHANGED sideVars
    /\ \E e \in Engines, what \in {"hour", "day", "block"} :
           /\ engineState[e] # refreshBuckets(engineState[e], what)
           /\ engineState' = [engineState EXCEPT ![e] = refreshBuckets(@, what)]
           /\ UNCHANGED <<queueVars, dbVars, orchVars>>

\* a pending retry timer fires: the timer is gone and ensureProcessing runs
RetryFires ==
    /\ UNCHANGED sideVars
    /\ \E e \in retryTimers :
           /\ EnsureProcessingOn(queues, retryTimers \ {e})
           /\ UNCHANGED <<nextSeq, engineState, dbVars, orchVars>>

(***************************************************************************)
(* BaseEngine: the graduated CAPTCHA response.  Instants and durations are *)
(* counted in quarter hours; instant 0 is the epoch of Date.now().         *)
(***************************************************************************)
\* 3_600_000 ms
HOUR == 4

\* the length of the CAPTCHA window: 24 * 3_600_000 ms
CAPTCHA_WINDOW == 24 * HOUR

\* ENGINE_CONFIGS[e].throttle.pauseOnCaptchaHours
pauseOnCaptchaHours(e) ==
    CASE e = "google_search" -> 24
      [] e = "google_local"  -> 24
      [] e = "duckduckgo"    -> 1

\* the private fields of a freshly constructed engine (blockedUntil 0: null);
\* events records the instants of the CAPTCHA events of the last 24 hours
NewCaptcha(e) ==
    [engineId |-> e, captchaCount |-> 0, captchaWindowStart |-> 0, blockedUntil |-> 0,
     events |-> {}]

\* pauseMs for the captchaCount-th CAPTCHA of the window
pauseMs(captchaCount) ==
    IF captchaCount = 1 THEN HOUR \div 4
    ELSE IF captchaCount = 2 THEN 2 * HOUR
    ELSE 24 * HOUR

\* markBlocked() called at instant t
markBlockedAt(c, t) ==
    LET expired == t - c.captchaWindowStart > CAPTCHA_WINDOW
        count   == IF expired THEN 0 ELSE c.captchaCount
        start   == IF expired \/ c.captchaWindowStart = 0 THEN t ELSE c.captchaWindowStart
    IN  [c EXCEPT !.captchaCount = count + 1,
                  !.captchaWindowStart = start,
                  !.blockedUntil = t + pauseMs(count + 1)]

\* getStatus() = 'blocked' at instant t
isBlockedAt(c, t) == c.blockedUntil # 0 /\ t < c.blockedUntil

\* the process starts more than a day after the epoch
StartTime == CAPTCHA_WINDOW + 1

InitClock ==
    /\ now = StartTime
    /\ captcha = NewCaptcha("google_search")

\* a quarter of an hour passes
Tick ==
    /\ now < MaxTime
    /\ now' = now + 1
    /\ UNCHANGED <<captcha, queueVars, engineState, dbVars, orchVars, extVars>>

\* a search of the engine, which can make requests, meets a CAPTCHA page or
\* HTTP 429 and calls markBlocked
CaptchaEvent ==
    /\ ~isBlockedAt(captcha, now)
    /\ captcha' = [markBlockedAt(captcha, now) EXCEPT
                      !.events = {t \in @ : now - t <= CAPTCHA_WINDOW} \cup {now}]
    /\ UNCHANGED <<now, queueVars, engineState, dbVars, orchVars, extVars>>

(***************************************************************************)
(* BaseEngine with its clock: the counters with their reset instants and   *)
(* the error streak of one engine (google_search), whose block bookkeeping *)
(* is `captcha`.                                                           *)
(***************************************************************************)
\* 24 * 3_600_000 ms
DAY == 24 * HOUR

\* getNextMidnightUTC() at instant t
getNextMidnightUTC(t) == ((t \div DAY) + 1) * DAY

\* the constructor's state, at instant t
NewEngine(t) ==
    [requestsThisHour |-> 0, requestsToday |-> 0, errorCount |-> 0,
     hourResetAt |-> t + HOUR, dayResetAt |-> getNextMidnightUTC(t)]

\* refreshBuckets() at instant t: the two counters
refreshCounters(en, t) ==
    [en EXCEPT !.requestsThisHour = IF t >= en.hourResetAt THEN 0 ELSE @,
               !.hourResetAt      = IF t >= en.hourResetAt THEN t + HOUR ELSE @,
               !.requestsToday    = IF t >= en.dayResetAt THEN 0 ELSE @,
               !.dayResetAt       = IF t >= en.dayResetAt THEN getNextMidnightUTC(t) ELSE @]

\* refreshBuckets() at instant t: the block
refreshBlock(c, t) ==
    IF c.blockedUntil # 0 /\ t >= c.blockedUntil THEN [c EXCEPT !.blockedUntil = 0] ELSE c

\* what getStatus() looks at after refreshBuckets()
EngineView(en, c, t) ==
    [blocked |-> isBlockedAt(refreshBlock(c, t), t),
     requestsThisHour |-> refreshCounters(en, t).requestsThisHour,
     requestsToday |-> refreshCounters(en, t).requestsToday]

\* recordRequest() at instant t
recordRequestAt(en, t) == [recordRequest(refreshCounters(en, t)) EXCEPT !.errorCount = 0]

\* a catch block that leaves the error streak alone
KeepStreak(en) == en

recordError(en) == [en EXCEPT !.errorCount = @ + 1]

NoResult == [op |-> "none", status |-> "none", can |-> FALSE, outcome |-> "none",
             thrown |-> FALSE]

InitLate ==
    /\ engine = NewEngine(StartTime)
    /\ engineCall = [phase |-> "idle", n |-> 0, last |-> NoResult]
    /\ resolving = <<>>

\* getStatus() and canMakeRequest() are called
GetStatus ==
    /\ engine' = refreshCounters(engine, now)
    /\ captcha' = refreshBlock(captcha, now)
    /\ engineCall' = [engineCall EXCEPT !.last =
                         [NoResult EXCEPT !.op = "getStatus",
                                          !.status = getStatus(EngineView(engine, captcha, now)),
                                          !.can = canMakeRequest(EngineView(engine, captcha, now))]]
    /\ UNCHANGED <<now, queueVars, engineState, dbVars, orchVars, schedVars, proc,
                   createVars, matchVars, text, resolving>>

\* search() is called: it throws at once unless the engine can make a
\* request, else it waits for the throttle and sends the request
SearchCalled ==
    /\ engineCall.phase = "idle"
    /\ engineCall.n < MaxSearches
    /\ engine' = refreshCounters(engine, now)
    /\ captcha' = refreshBlock(captcha, now)
    /\ engineCall' =
          IF canMakeRequest(EngineView(engine, captcha, now))
          THEN [engineCall EXCEPT !.phase = "sent"]
          ELSE [engineCall EXCEPT !.n = @ + 1,
                                  !.last = [NoResult EXCEPT !.op = "search",
                                                            !.outcome = "refused",
                                                            !.thrown = TRUE]]
    /\ UNCHANGED <<now, queueVars, engineState, dbVars, orchVars, schedVars, proc,
                   createVars, matchVars, text, resolving>>

\* the request of search() settles and search() returns or throws
SearchSettled ==
    /\ engineCall.phase = "sent"
    /\ \E resp \in Responses :
          LET outcome == SearchOutcome(resp)
          IN  /\ engine' = CASE outcome = "ok" -> recordRequestAt(engine, now)
                             [] outcome \in Throws -> recordError(engine)
                             [] OTHER -> engine
              /\ captcha' = IF outcome = "captcha"
                               \/ (outcome = "ratelimited" /\ captcha.engineId \in BlocksOn429)
                            THEN markBlockedAt(captcha, now)
                            ELSE captcha
              /\ engineCall' = [phase |-> "idle", n |-> engineCall.n + 1,
                                last |-> [NoResult EXCEPT !.op = "search",
                                                          !.outcome = outcome,
                                                          !.thrown = outcome \in Throws]]
    /\ UNCHANGED <<now, queueVars, engineState, dbVars, orchVars, schedVars, proc,
                   createVars, matchVars, text, resolving>>

\* an hour or a day passes
ClockAdvances ==
    /\ \E d \in {HOUR, DAY} :
          /\ now + d <= MaxTime
          /\ now' = now + d
    /\ UNCHANGED <<captcha, queueVars, engineState, dbVars, orchVars, extVars>>

(***************************************************************************)
(* The application.                                                        *)
(***************************************************************************)
\* what the scan execution subsystem does not look at: no schedule, the
\* process up, no creation call, no business, no name
InitExt ==
    /\ schedRows = <<>>
    /\ jobs = <<>>
    /\ cronTasks = {}
    /\ schedCalls = {}
    /\ schedCount = [tasks |-> 0, calls |-> 0, edits |-> 0]
    /\ fired = <<>>
    /\ proc = "running"
    /\ catalog = <<>>
    /\ created = <<>>
    /\ tasksQueued = 0
    /\ monitorsSpawned = [single |-> 0, batch |-> 0]
    /\ lastCall = <<>>
    /\ businesses = {}
    /\ matchClock = 0
    /\ lastMatch = <<>>
    /\ text = <<>>
    /\ InitLate

InitDb ==
    /\ scans = [s \in ScanIds |-> NoScan]
    /\ points = [s \in ScanIds |-> [p \in PointIds |-> "none"]]

InitOrch ==
    /\ requests = {}
    /\ monitors = {}
    /\ cancels = {}
    /\ recovery = NoRecovery
    /\ faults = [restarts |-> 0, cancels |-> 0]

Init == InitQueue /\ InitEngines /\ InitDb /\ InitOrch /\ InitClock /\ InitExt

Next ==
    \/ CreateScan \/ CreatePoints \/ MarkRunning
    \/ TaskSearchDone \/ TaskCounted
    \/ MonitorRead \/ MonitorDecide \/ MonitorTimeout \/ MonitorDbError
    \/ CancelCheck \/ CancelWrite
    \/ Restart \/ RecoverScan
    \/ TimePasses \/ RetryFires

Spec == Init /\ [][Next]_vars

(***************************************************************************)
(* The application without restarts and cancellations, under the           *)
(* scheduling of the event loop: a continuation that can run does run, a   *)
(* timer that is due fires.                                                *)
(***************************************************************************)
NextLive ==
    \/ CreateScan \/ CreatePoints \/ MarkRunning
    \/ TaskSearchDone \/ TaskCounted
    \/ MonitorRead \/ MonitorDecide \/ MonitorTimeout \/ MonitorDbError
    \/ TimePasses \/ RetryFires

SpecLive == Init /\ [][NextLive]_vars /\ WF_vars(NextLive)

(***************************************************************************)
(* Handler harness: executeTask invoked concurrently, up to MaxWorkers     *)
(* invocations at a time, once for each point of one running scan.         *)
(***************************************************************************)
InitHandler ==
    /\ InitQueue /\ InitEngines /\ InitOrch /\ InitClock /\ InitExt
    /\ \E e \in Engines, g \in 1..MaxGridSize :
          /\ scans = [s \in ScanIds |->
                        IF s = 1 THEN [NewScanRow(e, g) EXCEPT !.status = "running",
                                                               !.startedAt = TRUE]
                        ELSE NoScan]
          /\ points = [s \in ScanIds |-> [p \in PointIds |->
                        IF s = 1 /\ p <= g * g THEN "pending" ELSE "none"]]

\* a worker calls the handler with the task of a point not handed out before
HStart ==
    /\ UNCHANGED sideVars
    /\ \E p \in PointIds :
           /\ Cardinality(workers) < MaxWorkers
           /\ points[1][p] = "pending"
           /\ \A w \in workers : w.task.scanPointId # p
           /\ workers' = workers \cup
                 {NewWorker(scans[1].searchEngine,
                            Head(TasksFor(1, scans[1].searchEngine, {p})))}
           /\ UNCHANGED <<queues, processingEngines, stopped, retryTimers, dispatched,
                          nextSeq, engineState, dbVars, orchVars>>

\* the counter update executes and the invocation returns
HCounted ==
    /\ UNCHANGED sideVars
    /\ \E w \in workers :
           /\ w.phase = "count"
           /\ CountPoint(w)
           /\ workers' = workers \ {w}
           /\ UNCHANGED <<queues, processingEngines, stopped, retryTimers, dispatched,
                          nextSeq, engineState, points, orchVars>>

NextHandler == HStart \/ TaskSearchDone \/ HCounted

SpecHandler == InitHandler /\ [][NextHandler]_vars

(***************************************************************************)
(* The queue harness.                                                      *)
(***************************************************************************)
NextQueue ==
    \/ QEnqueueBatch \/ QEnsureProcessing \/ QStop \/ QHandlerReturns
    \/ TimePasses \/ RetryFires

SpecQueue == Init /\ [][NextQueue]_vars

(***************************************************************************)
(* Block-policy harness: one engine of any kind, over a little more than   *)
(* a day, meets CAPTCHA events whenever it is able to make a request.      *)
(***************************************************************************)
InitBlock ==
    /\ InitQueue /\ InitEngines /\ InitDb /\ InitOrch /\ InitExt
    /\ now = StartTime
    /\ \E e \in Engines : captcha = NewCaptcha(e)

NextBlock == Tick \/ CaptchaEvent

SpecBlock == InitBlock /\ [][NextBlock]_vars

(***************************************************************************)
(* Engine harness: getStatus, canMakeRequest and search called on one      *)
(* engine, one search at a time, while hours and days pass.                *)
(***************************************************************************)
InitEngine == InitQueue /\ InitEngines /\ InitDb /\ InitOrch /\ InitClock /\ InitExt

NextEngine == GetStatus \/ SearchCalled \/ SearchSettled \/ ClockAdvances

SpecEngine == InitEngine /\ [][NextEngine]_vars

(***************************************************************************)
(* Properties.                                                             *)
(***************************************************************************)
\* the worker loops of engine e that are active (suspended in a handler call)
ActiveWorkers(e) == {w \in workers : w.engine = e}

\* the workers that are about to issue the counter update
Counting == {w \in workers : w.phase = "count"}

\* the points of scan s whose ScanPoint has been marked completed or failed
Handled(s) == {p \in PointIds : points[s][p] \in {"completed", "failed"}}

IdleMessages ==
    {"Only x/y points completed", "Engine queue empty before all points completed"}

\* C1: at most one worker per engine at a time: in every state reachable by
\* enqueueBatch, ensureProcessing, stop and handler completions, no engine has
\* two active worker loops.
C1_OneWorkerPerEngine ==
    \A e \in Engines : Cardinality(ActiveWorkers(e)) <= 1

\* C2: scan completion invariant: a scan in a terminal state has
\* pointsCompleted = pointsTotal, or is failed with its errorMessage set.
C2_CompletionInvariant ==
    \A s \in Existing :
        scans[s].status \in Terminal =>
            \/ scans[s].pointsCompleted = scans[s].pointsTotal
            \/ scans[s].status = "failed" /\ scans[s].errorMessage # "null"

\* C3: monotonic scan status: no step takes a scan from a terminal status to
\* a non-terminal one.
C3_MonotonicStatus ==
    [][\A s \in ScanIds :
          scans[s].status \in Terminal => scans'[s].status \in Terminal]_vars

\* C4: every change of a scan's status goes from queued to running or from
\* queued/running to completed, failed or cancelled; in particular a monitor
\* sets a terminal status only on a scan that is still queued or running.
C4_ForwardOnly ==
    [][\A s \in Existing :
          scans'[s].status # scans[s].status =>
              \/ scans[s].status = "queued" /\ scans'[s].status = "running"
              \/ scans[s].status \in NonTerminal /\ scans'[s].status \in Terminal]_vars

\* C5: in every reachable state every scan has 0 <= pointsCompleted <=
\* pointsTotal and pointsTotal = gridSize * gridSize.
C5_CounterBounds ==
    \A s \in Existing :
        /\ 0 <= scans[s].pointsCompleted
        /\ scans[s].pointsCompleted <= scans[s].pointsTotal
        /\ scans[s].pointsTotal = scans[s].gridSize * scans[s].gridSize

\* a scan of the largest grid, recovered after a restart, with every point
\* counted, one of them failed
C5_Witness ==
    /\ faults.restarts > 0
    /\ scans[1].gridSize = MaxGridSize
    /\ scans[1].pointsCompleted = scans[1].pointsTotal
    /\ \E p \in PointIds : points[1][p] = "failed"

\* C6: counter atomicity: with the handler run concurrently for the points of
\* one scan, every handled point is counted once its invocation has returned
\* (pointsCompleted = handled points - invocations still to count), so with
\* all P points handled and every invocation returned pointsCompleted = P.
C6_NoLostIncrement ==
    /\ scans[1].pointsCompleted + Cardinality(Counting) = Cardinality(Handled(1))
    /\ (workers = {} /\ Cardinality(Handled(1)) = scans[1].pointsTotal)
          => scans[1].pointsCompleted = scans[1].pointsTotal

\* MaxWorkers invocations are about to increment the counter at the same time
C6_Witness ==
    /\ Cardinality(Counting) = MaxWorkers
    /\ scans[1].pointsTotal > MaxWorkers
    /\ scans[1].pointsCompleted = 1

\* C7: every persisted scan eventually reaches a terminal status.
C7_EventuallyTerminal ==
    \A s \in ScanIds :
        (scans[s].status \in NonTerminal) ~> (scans[s].status \in Terminal)

C9_FailedPointCounted ==
    [][\A w \in workers :
          LET s == w.task.scanId
              p == w.task.scanPointId
          IN  /\ (w.phase = "search"
                    /\ \E outcome \in Throws :
                          [w EXCEPT !.phase = "count", !.outcome = outcome,
                                    !.readCompleted = scans[s].pointsCompleted] \in workers')
                 => /\ points'[s][p] = "failed"
                    /\ scans'[s].pointsCompleted = scans[s].pointsCompleted
              /\ (w.phase = "count" /\ w.outcome \in Throws /\ w \notin workers'
                    /\ faults' = faults)
                 => /\ points'[s][p] = "failed"
                    /\ scans'[s].pointsCompleted = scans[s].pointsCompleted + 1]_vars

\* a scan all of whose searches failed is completed with every point counted
C9_Witness ==
    \E s \in Existing :
        /\ scans[s].status = "completed"
        /\ scans[s].pointsTotal > 1
        /\ scans[s].pointsCompleted = scans[s].pointsTotal
        /\ \A p \in 1..scans[s].pointsTotal : points[s][p] = "failed"

\* C10: for every engine, the task handed to the handler has a priority at
\* least that of every task still queued, and among the queued tasks of its
\* own priority it is the one enqueued first.
C10_PriorityThenFifo ==
    [][\A e \in Engines :
          Len(dispatched'[e]) = Len(dispatched[e]) + 1 =>
              LET t == dispatched'[e][Len(dispatched'[e])]
              IN  \A i \in 1..Len(queues'[e]) :
                      \/ queues'[e][i].priority < t.priority
                      \/ queues'[e][i].priority = t.priority /\ queues'[e][i].seq > t.seq]_vars

\* an engine has handed over two tasks of one priority in their enqueue
\* order, and a task of higher priority ahead of one enqueued before it
C10_Witness ==
    \E e \in Engines :
        LET d == dispatched[e]
        IN  /\ \E i, j \in 1..Len(d) :
                  i < j /\ d[i].priority = d[j].priority /\ d[i].seq < d[j].seq
            /\ \E i, j \in 1..Len(d) :
                  i < j /\ d[i].priority > d[j].priority /\ d[i].seq > d[j].seq

\* C11: queue group cap: a step after which the Google engines' combined
\* total of the day is at or above the cap dispatches no task of a Google-group
\* engine, and the queue of such an engine loses no task in it (unless the
\* step is stop(), which clears the queues).
C11_GroupCap ==
    [][\A e \in Engines :
          (isGoogleEngine(e) /\ getGoogleDailyTotal(engineState') >= DailyLimit)
          => /\ dispatched'[e] = dispatched[e]
             /\ stopped' \/ Len(queues'[e]) >= Len(queues[e])]_vars

\* a Google engine that can make requests by its own counters is paused by
\* the group cap: its task is queued and no worker of the engine runs
C11_Witness ==
    \E e \in Engines :
        /\ isGoogleEngine(e)
        /\ canMakeRequest(engineState[e])
        /\ isGoogleLimitReached(engineState)
        /\ getQueueDepth(e) > 0
        /\ ActiveWorkers(e) = {}
        /\ e \notin processingEngines

\* C12: once a scan's status is cancelled, no task of that scan is handed to
\* the handler any more: a step taken while the scan is cancelled dispatches
\* no task of it.
C12_CancelStopsFeeding ==
    [][\A s \in Existing :
          scans[s].status = "cancelled" =>
              \A e \in Engines :
                  Len(dispatched'[e]) = Len(dispatched[e]) + 1 =>
                      dispatched'[e][Len(dispatched'[e])].scanId # s]_vars

\* C13: when stop() returns, every queue is empty and no worker loop is
\* still active.
C13_StopAwaitsWorkers ==
    [][QStop => /\ \A e \in Engines : getQueueDepth(e)' = 0
                /\ workers' = {}]_vars

\* the tasks of scan s that are queued or in the hands of the handler
TasksOf(s) ==
    LET e == scans[s].searchEngine
    IN  {queues[e][i] : i \in 1..Len(queues[e])} \cup {w.task : w \in workers}

\* C14: recoverOrphanedScans re-enqueues exactly one task for every pending
\* or running ScanPoint of an orphaned scan and none for any other point;
\* and after a restart, a scan all of whose points have been handled and
\* counted has pointsCompleted = pointsTotal, and a scan is completed only
\* with pointsCompleted = pointsTotal.
C14_RecoveryCompletes ==
    /\ [][\A s \in ScanIds :
            (s \in recovery.todo /\ s \notin recovery'.todo /\ faults' = faults)
            => /\ {t.scanPointId : t \in TasksOf(s)'} = PendingPoints(s)
               /\ Cardinality(TasksOf(s)') = Cardinality(PendingPoints(s))
               /\ \A t \in TasksOf(s)' : t.scanId = s]_vars
    /\ [](\A s \in Existing :
            faults.restarts > 0 =>
                /\ (/\ recovery = NoRecovery
                    /\ Handled(s) = 1..scans[s].pointsTotal
                    /\ workers = {})
                   => scans[s].pointsCompleted = scans[s].pointsTotal
                /\ scans[s].status = "completed"
                   => scans[s].pointsCompleted = scans[s].pointsTotal)

\* the block duration applied by the CAPTCHA event of the step
AppliedPause == captcha'.blockedUntil - now

\* C15: a CAPTCHA event blocks the engine for 15 minutes if it is the 1st
\* event of the last 24 hours, for 2 hours if it is the 2nd and for 24 hours
\* if it is the 3rd or later, the events being counted over the 24 hours that
\* end with the event.
C15_SlidingWindow ==
    [][CaptchaEvent =>
          LET n == Cardinality(captcha'.events)
          IN  AppliedPause = IF n = 1 THEN HOUR \div 4
                             ELSE IF n = 2 THEN 2 * HOUR
                             ELSE 24 * HOUR]_vars

\* C16: the block duration applied on a CAPTCHA event never exceeds the
\* engine's pauseOnCaptchaHours.
C16_PauseCeiling ==
    [][CaptchaEvent =>
          AppliedPause <= pauseOnCaptchaHours(captcha.engineId) * HOUR]_vars

\* the search of handler invocation w settles in this step with response resp
SearchSettles(w, resp) ==
    /\ w.phase = "search"
    /\ [w EXCEPT !.phase = "count", !.outcome = SearchOutcome(resp),
                 !.readCompleted = scans[w.task.scanId].pointsCompleted] \in workers'

BlockEvents == {"captcha", "ratelimited"}

\* C18: a task whose search meets a CAPTCHA or HTTP 429 has its ScanPoint
\* marked failed and the event recorded in the engine's state (the engine is
\* blocked); when its handler returns, pointsCompleted has been incremented
\* by exactly one.
C18_BlockEventFailsPoint ==
    /\ [][\A w \in workers, resp \in Responses :
            (SearchSettles(w, resp) /\ SearchOutcome(resp) \in BlockEvents)
            => /\ points'[w.task.scanId][w.task.scanPointId] = "failed"
               /\ getStatus(engineState'[w.engine]) = "blocked"]_vars
    /\ [][\A w \in workers :
            (/\ w.phase = "count" /\ w.outcome \in BlockEvents
             /\ w \notin workers' /\ faults' = faults)
            => scans'[w.task.scanId].pointsCompleted
                  = scans[w.task.scanId].pointsCompleted + 1]_vars

\* C19: after a search of a Google engine has been answered with HTTP 429,
\* the engine's status is blocked, as after a CAPTCHA.
C19_RateLimitBlocksGoogle ==
    [][\A w \in workers, resp \in Responses :
          (SearchSettles(w, resp) /\ resp.status = 429 /\ isGoogleEngine(w.engine))
          => getStatus(engineState'[w.engine]) = "blocked"]_vars

TimeoutMessages ==
    {"Scan timed out after 30 minutes", "Full scan timed out after 6 hours"}

\* the tasks of scan s that wait in the queue of its engine
QueuedTasks(s) ==
    LET q == queues[scans[s].searchEngine]
    IN  {q[i] : i \in {j \in 1..Len(q) : q[j].scanId = s}}

\* scan s is running, its engine is blocked before and after the step with
\* tasks of the scan waiting in its queue, and the step ends the scan
EndsWhileBlocked(s) ==
    /\ scans[s].status = "running"
    /\ getStatus(engineState[scans[s].searchEngine]) = "blocked"
    /\ getStatus(engineState'[scans[s].searchEngine]) = "blocked"
    /\ QueuedTasks(s) # {}
    /\ scans'[s].status # "running"

\* C20 (as stated): a scan that ends while its engine is blocked ends with
\* status failed and errorMessage "Engine queue empty before all points
\* completed" (unless it is cancelled or its monitor fails on a database
\* error).
C20_BlockedScanQueueEmpty ==
    [][\A s \in Existing :
          (/\ EndsWhileBlocked(s)
           /\ scans'[s].status # "cancelled"
           /\ scans'[s].errorMessage # "database error")
          => /\ scans'[s].status = "failed"
             /\ scans'[s].errorMessage
                   = "Engine queue empty before all points completed"]_vars

\* C20: a running scan whose engine is blocked with tasks still queued is
\* never failed for an idle engine: it ends, if not by cancellation or by a
\* monitor's database error, with status failed and the time-out message of
\* its monitor.
C20_BlockedScanTimesOut ==
    [][\A s \in Existing :
          EndsWhileBlocked(s)
          => \/ scans'[s].status = "cancelled"
             \/ /\ scans'[s].status = "failed"
                /\ scans'[s].errorMessage \in TimeoutMessages \cup {"database error"}]_vars

\* a scan has been failed by the time-out of its monitor while its engine was
\* blocked with tasks still queued
C20_Witness ==
    \E s \in Existing :
        /\ scans[s].status = "failed"
        /\ scans[s].errorMessage \in TimeoutMessages
        /\ getStatus(engineState[scans[s].searchEngine]) = "blocked"
        /\ QueuedTasks(s) # {}
        /\ faults = [restarts |-> 0, cancels |-> 0]

\* C23: in every reachable state a scan's completedAt is set if and only if
\* its status is terminal (completed, failed or cancelled).
C23_CompletedAtIffTerminal ==
    \A s \in Existing : scans[s].completedAt <=> scans[s].status \in Terminal

\* the step is a monitor's idleness decision on scan s: the status update
\* that fails the scan because its engine has nothing left to do
MarksFailed(s) ==
    /\ scans'[s] # scans[s]
    /\ scans'[s].status = "failed"
    /\ scans'[s].errorMessage \in IdleMessages
    /\ scans[s].errorMessage \notin IdleMessages

\* C30: a monitor never marks a scan failed when all of the scan's points
\* have been handled: no status update leaves a scan failed while its row has
\* pointsCompleted = pointsTotal at the time of the update.
C30_NeverFailsHandledScan ==
    [][\A s \in Existing :
          MarksFailed(s) => scans[s].pointsCompleted # scans[s].pointsTotal]_vars

(***************************************************************************)
(* ScanScheduler.  start and reloadSchedule are cut at their query: the    *)
(* call, the query executing in the database, the continuation.            *)
(***************************************************************************)
ScheduleIds == 1..MaxSchedules

\* what is read for a schedule whose row has been deleted
NoSchedule == [isActive |-> FALSE, valid |-> FALSE, deleted |-> TRUE]

\* the live cron tasks whose callback executes schedule id
LiveTasks(id) == {t \in cronTasks : t.scheduleId = id}

\* the tasks the job map refers to
MappedTasks == {t \in cronTasks : jobs[t.scheduleId] = t.task}

\* registerJob for each of the rows: a row with an invalid cron expression
\* is skipped, otherwise cron.schedule(...) and jobs.set(schedule.id, ...)
registerJob(rows) ==
    LET ids == {r.id : r \in {x \in rows : x.valid}}
        num(id) == schedCount.tasks + Cardinality({j \in ids : j <= id})
    IN  /\ cronTasks' = cronTasks \cup {[task |-> num(id), scheduleId |-> id] : id \in ids}
        /\ jobs' = [id \in ScheduleIds |-> IF id \in ids THEN num(id) ELSE jobs[id]]
        /\ schedCount' = [schedCount EXCEPT !.tasks = @ + Cardinality(ids)]

NewSchedCall(op, id) ==
    [op |-> op, id |-> id, n |-> schedCount.calls + 1, phase |-> "query", rows |-> {}]

\* start(), up to its findMany
SchedStart ==
    /\ schedCount.calls < MaxSchedCalls
    /\ schedCalls' = schedCalls \cup {NewSchedCall("start", 0)}
    /\ schedCount' = [schedCount EXCEPT !.calls = @ + 1]
    /\ UNCHANGED <<schedRows, jobs, cronTasks, fired>>
    /\ UNCHANGED <<appVars, proc, createVars, matchVars, text, lateVars>>

\* stop(): every job of the map is stopped, the map cleared
SchedStop ==
    /\ jobs # [id \in ScheduleIds |-> 0]
    /\ cronTasks' = cronTasks \ MappedTasks
    /\ jobs' = [id \in ScheduleIds |-> 0]
    /\ UNCHANGED <<schedRows, schedCalls, schedCount, fired>>
    /\ UNCHANGED <<appVars, proc, createVars, matchVars, text, lateVars>>

\* reloadSchedule(id), up to its findUnique: the job the map holds for the
\* schedule is stopped and deleted
ReloadSchedule ==
    /\ schedCount.calls < MaxSchedCalls
    /\ \E id \in ScheduleIds :
           /\ cronTasks' = {t \in cronTasks : ~(t.scheduleId = id /\ jobs[id] = t.task)}
           /\ jobs' = [jobs EXCEPT ![id] = 0]
           /\ schedCalls' = schedCalls \cup {NewSchedCall("reload", id)}
    /\ schedCount' = [schedCount EXCEPT !.calls = @ + 1]
    /\ UNCHANGED <<schedRows, fired>>
    /\ UNCHANGED <<appVars, proc, createVars, matchVars, text, lateVars>>

\* reloadAll(): stop(), then start() up to its findMany
ReloadAll ==
    /\ schedCount.calls < MaxSchedCalls
    /\ cronTasks' = cronTasks \ MappedTasks
    /\ jobs' = [id \in ScheduleIds |-> 0]
    /\ schedCalls' = schedCalls \cup {NewSchedCall("start", 0)}
    /\ schedCount' = [schedCount EXCEPT !.calls = @ + 1]
    /\ UNCHANGED <<schedRows, fired>>
    /\ UNCHANGED <<appVars, proc, createVars, matchVars, text, lateVars>>

\* the database executes the query of a call: findMany({ isActive: true })
\* for start, findUnique({ id }) followed by `schedule?.isActive` for
\* reloadSchedule
SchedQuery ==
    /\ \E c \in schedCalls :
           LET found == {id \in ScheduleIds :
                           schedRows[id].isActive /\ (c.op = "start" \/ id = c.id)}
           IN  /\ c.phase = "query"
               /\ schedCalls' = (schedCalls \ {c}) \cup
                     {[c EXCEPT !.phase = "found",
                                !.rows = {[id |-> id, valid |-> schedRows[id].valid] :
                                             id \in found}]}
    /\ UNCHANGED <<schedRows, jobs, cronTasks, schedCount, fired>>
    /\ UNCHANGED <<appVars, proc, createVars, matchVars, text, lateVars>>

\* the continuation of start or reloadSchedule: registerJob for what was
\* found; the DELETE route, whose reloadSchedule call this was, goes on to
\* its delete
SchedResume ==
    /\ \E c \in schedCalls :
           /\ c.phase = "found"
           /\ registerJob(c.rows)
           /\ schedCalls' = (schedCalls \ {c}) \cup
                 (IF c.op = "delete" THEN {[c EXCEPT !.phase = "reloaded"]} ELSE {})
    /\ UNCHANGED <<schedRows, fired>>
    /\ UNCHANGED <<appVars, proc, createVars, matchVars, text, lateVars>>

\* a schedule route updates a row that exists (PATCH, toggle)
SchedEdit ==
    /\ schedCount.edits < MaxSchedEdits
    /\ \E id \in ScheduleIds :
           /\ schedRows[id] # NoSchedule
           /\ schedRows' = [schedRows EXCEPT ![id].isActive = ~@]
    /\ schedCount' = [schedCount EXCEPT !.edits = @ + 1]
    /\ UNCHANGED <<jobs, cronTasks, schedCalls, fired>>
    /\ UNCHANGED <<appVars, proc, createVars, matchVars, text, lateVars>>

\* DELETE /api/schedules/:id finds the row and calls reloadSchedule(id), which
\* runs up to its findUnique
SchedDelete ==
    /\ schedCount.calls < MaxSchedCalls
    /\ \E id \in ScheduleIds :
           /\ schedRows[id] # NoSchedule
           /\ cronTasks' = {t \in cronTasks : ~(t.scheduleId = id /\ jobs[id] = t.task)}
           /\ jobs' = [jobs EXCEPT ![id] = 0]
           /\ schedCalls' = schedCalls \cup {NewSchedCall("delete", id)}
    /\ schedCount' = [schedCount EXCEPT !.calls = @ + 1]
    /\ UNCHANGED <<schedRows, fired>>
    /\ UNCHANGED <<appVars, proc, createVars, matchVars, text, lateVars>>

\* the DELETE route after `await scheduler.reloadSchedule(id)`:
\* prisma.scanSchedule.delete
SchedDeleteRow ==
    /\ \E c \in schedCalls :
           /\ c.op = "delete"
           /\ c.phase = "reloaded"
           /\ schedRows' = [schedRows EXCEPT ![c.id] = NoSchedule]
           /\ schedCalls' = schedCalls \ {c}
    /\ UNCHANGED <<jobs, cronTasks, schedCount, fired>>
    /\ UNCHANGED <<appVars, proc, createVars, matchVars, text, lateVars>>

\* a minute boundary that matches every cron expression: each live task runs
\* its callback, which calls executeSchedule
CronTick ==
    /\ fired' = [id \in ScheduleIds |-> Cardinality(LiveTasks(id))]
    /\ UNCHANGED <<schedRows, jobs, cronTasks, schedCalls, schedCount>>
    /\ UNCHANGED <<appVars, proc, createVars, matchVars, text, lateVars>>

InitSched ==
    /\ InitQueue /\ InitEngines /\ InitDb /\ InitOrch /\ InitClock
    /\ schedRows \in [ScheduleIds -> [isActive : BOOLEAN, valid : BOOLEAN]]
    /\ jobs = [id \in ScheduleIds |-> 0]
    /\ cronTasks = {}
    /\ schedCalls = {}
    /\ schedCount = [tasks |-> 0, calls |-> 0, edits |-> 0]
    /\ fired = [id \in ScheduleIds |-> 0]
    /\ proc = "running"
    /\ catalog = <<>>
    /\ created = <<>>
    /\ tasksQueued = 0
    /\ monitorsSpawned = [single |-> 0, batch |-> 0]
    /\ lastCall = <<>>
    /\ businesses = {}
    /\ matchClock = 0
    /\ lastMatch = <<>>
    /\ text = <<>>
    /\ InitLate

NextSched ==
    \/ SchedStart \/ SchedStop \/ ReloadSchedule \/ ReloadAll
    \/ SchedQuery \/ SchedResume \/ SchedEdit \/ SchedDelete \/ SchedDeleteRow
    \/ CronTick

SpecSched == InitSched /\ [][NextSched]_vars

\* C21: after any sequence (overlapping calls included) of start,
\* reloadSchedule, reloadAll and stop at most one live cron job exists per
\* schedule id, and one cron tick fires a schedule at most once.
C21_OneLiveJobPerSchedule ==
    \A id \in ScheduleIds :
        /\ Cardinality(LiveTasks(id)) <= 1
        /\ fired[id] <= 1

(***************************************************************************)
(* The process (index.ts): the scheduler is started from the listen        *)
(* callback, requests feed the queue of the orchestrator, and SIGINT or    *)
(* SIGTERM runs shutdown().                                                *)
(***************************************************************************)
\* the event loop runs until process.exit
Alive == proc # "exited"

\* scheduler.start() in the listen callback
ListenStart == proc = "running" /\ schedCount.calls = 0 /\ SchedStart

ProcSchedQuery == Alive /\ SchedQuery

ProcSchedResume == Alive /\ SchedResume

\* a request that reaches queue.enqueueBatch
ProcEnqueueBatch == proc = "running" /\ QEnqueueBatch

ProcHandlerReturns == Alive /\ QHandlerReturns

\* shutdown(), up to `await disconnectPrisma()`: scheduler.stop()
Shutdown ==
    /\ proc = "running"
    /\ proc' = "disconnecting"
    /\ cronTasks' = cronTasks \ MappedTasks
    /\ jobs' = [id \in ScheduleIds |-> 0]
    /\ UNCHANGED <<schedRows, schedCalls, schedCount, fired>>
    /\ UNCHANGED <<appVars, createVars, matchVars, text, lateVars>>

\* the database connection is closed; process.exit(0)
Disconnected ==
    /\ proc = "disconnecting"
    /\ proc' = "exited"
    /\ UNCHANGED <<appVars, schedVars, createVars, matchVars, text, lateVars>>

InitProc ==
    /\ InitSched
    /\ \A id \in ScheduleIds : schedRows[id].valid

NextProc ==
    \/ ListenStart \/ ProcSchedQuery \/ ProcSchedResume
    \/ ProcEnqueueBatch \/ ProcHandlerReturns
    \/ Shutdown \/ Disconnected

SpecProc == InitProc /\ [][NextProc]_vars

\* C22: graceful shutdown stops the scheduler, then the queue, then closes
\* the database and exits: when the database has been closed the queue is
\* stopped.
C22_QueueStoppedBeforeDbClosed ==
    proc = "exited" => stopped

(***************************************************************************)
(* Scan creation seen from the routes: POST /api/scans (createScan) and    *)
(* POST /api/scans/full (createFullScan), each call taken as a whole.      *)
(***************************************************************************)
AreaIds == {"area1", "area2"}
CategoryIds == {"cat1", "cat2"}
RowStates == {"missing", "inactive", "active"}

\* category.name
CategoryName == [c \in CategoryIds |-> IF c = "cat1" THEN "Plumbers" ELSE "Electricians"]

\* the active keywords of the categories: the second category has none
ActiveKeywords == [c \in CategoryIds |-> IF c = "cat1" THEN {"plumber", "drain cleaning"} ELSE {}]

\* the keys of ScanOrchestrator.engines
RegisteredEngines == Engines

\* GRID_SIZES
GRID_SIZES == {3, 5, 7, 9}

\* request bodies; gridSize 0 stands for an absent gridSize, no id for an
\* absent or empty array
GridInputs == {0, 2, 3, 4, 10}

ScanBodies ==
    [serviceAreaId : AreaIds, categoryId : CategoryIds, keyword : {"plumber"},
     searchEngine : {"google_search", "yelp"}, gridSize : GridInputs]

FullScanBodies ==
    [serviceAreaIds : SUBSET AreaIds, categoryIds : SUBSET CategoryIds,
     engineIds : {<<>>, <<"duckduckgo">>, <<"google_search", "yelp">>,
                  <<"google_search", "google_search">>, <<"yelp">>},
     gridSize : {0, 4}]

\* gridSize: z.number().int().min(3).max(9).optional(), in createScanSchema
\* and in fullScanSchema
createScanSchema(body) == body.gridSize = 0 \/ (3 <= body.gridSize /\ body.gridSize <= 9)

\* the checks of createScanRecord before its first write: "ok" or the
\* message of the Error thrown
createScanRecord(request) ==
    IF catalog.areas[request.serviceAreaId] = "missing" THEN "Service area not found"
    ELSE IF catalog.categories[request.categoryId] = "missing" THEN "Category not found"
    ELSE IF request.searchEngine \notin RegisteredEngines THEN "Engine not available"
    ELSE "ok"

\* request.gridSize ?? 7
GridSizeOf(request) == IF request.gridSize = 0 THEN 7 ELSE request.gridSize

\* the data of prisma.scan.create
ScanData(request) ==
    [serviceAreaId |-> request.serviceAreaId, categoryId |-> request.categoryId,
     keyword |-> request.keyword, searchEngine |-> request.searchEngine,
     gridSize |-> GridSizeOf(request), status |-> "running"]

\* createFullScan: the service areas, the categories and the engine ids
serviceAreas(request) ==
    {a \in AreaIds : /\ catalog.areas[a] = "active"
                     /\ (request.serviceAreaIds # {} => a \in request.serviceAreaIds)}

categories(request) ==
    {c \in CategoryIds : /\ catalog.categories[c] = "active"
                         /\ (request.categoryIds # {} => c \in request.categoryIds)}

\* request.engineIds.filter((id) => this.engines.has(id)), or every key of
\* the engine map: how many times each registered engine is in the list
engineIds(request) ==
    [e \in RegisteredEngines |->
        IF Len(request.engineIds) > 0
        THEN Cardinality({i \in DOMAIN request.engineIds : request.engineIds[i] = e})
        ELSE 1]

\* category.keywords.map(kw => kw.keyword), the category name if there is none
keywordsOf(c) == IF ActiveKeywords[c] = {} THEN {CategoryName[c]} ELSE ActiveKeywords[c]

\* the requests the nested loops of createFullScan pass to createScanRecord
Combinations(request) ==
    UNION {UNION {{[serviceAreaId |-> a, categoryId |-> c, keyword |-> k,
                    searchEngine |-> e, gridSize |-> request.gridSize] :
                       k \in keywordsOf(c), e \in RegisteredEngines} :
                  c \in categories(request)} :
           a \in serviceAreas(request)}

\* the Scan rows one createFullScan call persists, as a bag
FullScanRows(request) ==
    LET ok == {r \in Combinations(request) :
                  engineIds(request)[r.searchEngine] > 0 /\ createScanRecord(r) = "ok"}
    IN  [d \in {ScanData(r) : r \in ok} |-> engineIds(request)[d.searchEngine]]

\* the Error createFullScan throws before its loops, or "ok"
createFullScan(request) ==
    IF serviceAreas(request) = {} THEN "No active service areas found"
    ELSE IF categories(request) = {} THEN "No active categories found"
    ELSE IF \A e \in RegisteredEngines : engineIds(request)[e] = 0 THEN "No available engines"
    ELSE "ok"

NewCall(op, body, outcome, n) == [op |-> op, request |-> body, outcome |-> outcome, scans |-> n]

\* POST /api/scans: validateBody(createScanSchema), then createScan
PostScan ==
    /\ lastCall = <<>>
    /\ \E body \in ScanBodies :
           IF ~createScanSchema(body)
           THEN /\ lastCall' = NewCall("createScan", body, "400", 0)
                /\ UNCHANGED <<created, tasksQueued, monitorsSpawned>>
           ELSE IF createScanRecord(body) # "ok"
           THEN /\ lastCall' = NewCall("createScan", body, createScanRecord(body), 0)
                /\ UNCHANGED <<created, tasksQueued, monitorsSpawned>>
           ELSE /\ created' = created (+) SetToBag({ScanData(body)})
                /\ tasksQueued' = tasksQueued + GridSizeOf(body) * GridSizeOf(body)
                /\ monitorsSpawned' = [monitorsSpawned EXCEPT !.single = @ + 1]
                /\ lastCall' = NewCall("createScan", body, "ok", 1)
    /\ UNCHANGED <<appVars, schedVars, proc, catalog, matchVars, text, lateVars>>

\* POST /api/scans/full: validateBody(fullScanSchema), then createFullScan
PostFullScan ==
    /\ lastCall = <<>>
    /\ \E body \in FullScanBodies :
           IF ~createScanSchema(body)
           THEN /\ lastCall' = NewCall("createFullScan", body, "400", 0)
                /\ UNCHANGED <<created, tasksQueued, monitorsSpawned>>
           ELSE IF createFullScan(body) # "ok"
           THEN /\ lastCall' = NewCall("createFullScan", body, createFullScan(body), 0)
                /\ UNCHANGED <<created, tasksQueued, monitorsSpawned>>
           ELSE LET rows == FullScanRows(body)
                    n    == BagCardinality(rows)
                IN  /\ created' = created (+) rows
                    /\ tasksQueued' = tasksQueued + n * GridSizeOf(body) * GridSizeOf(body)
                    /\ monitorsSpawned' = [monitorsSpawned EXCEPT
                                              !.batch = IF n > 0 THEN @ + 1 ELSE @]
                    /\ lastCall' = NewCall("createFullScan", body, "ok", n)
    /\ UNCHANGED <<appVars, schedVars, proc, catalog, matchVars, text, lateVars>>

InitCreate ==
    /\ InitQueue /\ InitEngines /\ InitDb /\ InitOrch /\ InitClock
    /\ schedRows = <<>>
    /\ jobs = <<>>
    /\ cronTasks = {}
    /\ schedCalls = {}
    /\ schedCount = [tasks |-> 0, calls |-> 0, edits |-> 0]
    /\ fired = <<>>
    /\ proc = "running"
    /\ catalog \in [areas : [AreaIds -> RowStates], categories : [CategoryIds -> RowStates]]
    /\ created = EmptyBag
    /\ tasksQueued = 0
    /\ monitorsSpawned = [single |-> 0, batch |-> 0]
    /\ lastCall = <<>>
    /\ businesses = {}
    /\ matchClock = 0
    /\ lastMatch = <<>>
    /\ text = <<>>
    /\ InitLate

NextCreate == PostScan \/ PostFullScan

SpecCreate == InitCreate /\ [][NextCreate]_vars

\* a creation call has returned or thrown
Called(op) == lastCall # <<>> /\ lastCall.op = op

\* C24: createScan validates that the area, the category and the engine exist
\* and are active: a request that names a missing or inactive area or
\* category, or a missing engine, is reported to the caller, nothing is
\* persisted and no task is enqueued.
C24_InvalidReferenceRejected ==
    (/\ Called("createScan")
     /\ \/ catalog.areas[lastCall.request.serviceAreaId] # "active"
        \/ catalog.categories[lastCall.request.categoryId] # "active"
        \/ lastCall.request.searchEngine \notin RegisteredEngines)
    => /\ lastCall.outcome # "ok"
       /\ created = EmptyBag
       /\ tasksQueued = 0

\* C25: a scan request whose gridSize is not one of 3, 5, 7, 9 is rejected
\* and nothing is persisted for it.
C25_UnsupportedGridRejected ==
    (lastCall # <<>> /\ lastCall.request.gridSize \notin GRID_SIZES \cup {0})
    => /\ lastCall.outcome # "ok"
       /\ created = EmptyBag

\* the combinations of the selected sets of a createFullScan request: the
\* engines are the registered ones the request names, all without a list
SelectedCombinations(request) ==
    {c \in Combinations(request) : engineIds(request)[c.searchEngine] > 0}

\* C26: createFullScan creates exactly one scan record for every combination
\* (area, category, keyword of the category, engine) of the selected sets,
\* with the defaults for missing sets, and spawns exactly one batch monitor.
C26_OneScanPerCombination ==
    (Called("createFullScan") /\ lastCall.outcome = "ok") =>
        /\ \A c \in SelectedCombinations(lastCall.request) :
               CopiesIn(ScanData(c), created) = 1
        /\ BagCardinality(created) = Cardinality(SelectedCombinations(lastCall.request))
        /\ monitorsSpawned = [single |-> 0, batch |-> 1]

(***************************************************************************)
(* utils/text: normalizeName.  A string is a sequence of characters.       *)
(***************************************************************************)
NameChars == {"L", "l", "c", "o", ".", " "}

\* the strings of at most n characters
StringsUpTo(n) == UNION {[1..k -> NameChars] : k \in 0..n}

Names == StringsUpTo(MaxNameLen)

Str(name) == [i \in 1..Len(name) |-> name[i]]

LegalSuffixes ==
    {<<"l", "l", "c">>, <<"i", "n", "c">>, <<"c", "o", "r", "p">>, <<"l", "t", "d">>,
     <<"c", "o">>, <<"c", "o", "m", "p", "a", "n", "y">>,
     <<"c", "o", "r", "p", "o", "r", "a", "t", "i", "o", "n">>,
     <<"i", "n", "c", "o", "r", "p", "o", "r", "a", "t", "e", "d">>,
     <<"l", "i", "m", "i", "t", "e", "d">>}

\* \w and \s on the characters of the model
IsWordChar(ch) == ch \in {"L", "l", "c", "o"}
IsSpace(ch) == ch = " "

\* the characters of s at the positions in keep, in order
Keep(s, keep) ==
    [n \in 1..Cardinality(keep) |->
        s[CHOOSE i \in keep : Cardinality({j \in keep : j < i}) = n - 1]]

\* .toLowerCase()
LowerCased(s) == [i \in 1..Len(s) |-> IF s[i] = "L" THEN "l" ELSE s[i]]

\* the word (maximal run of \w characters) position i of s lies in
WordAt(s, i) ==
    LET from == CHOOSE j \in 1..i :
                   /\ \A k \in j..i : IsWordChar(s[k])
                   /\ j = 1 \/ ~IsWordChar(s[j - 1])
        to   == CHOOSE j \in i..Len(s) :
                   /\ \A k \in i..j : IsWordChar(s[k])
                   /\ j = Len(s) \/ ~IsWordChar(s[j + 1])
    IN  SubSeq(s, from, to)

\* .replaceAll(/\b(llc|inc|corp|ltd|co|company|...)\b/g, ''): between two
\* word boundaries a match is a whole word
StripSuffixes(s) ==
    Keep(s, {i \in 1..Len(s) : ~(IsWordChar(s[i]) /\ WordAt(s, i) \in LegalSuffixes)})

\* .replaceAll(/[^\w\s]/g, '')
StripPunctuation(s) == Keep(s, {i \in 1..Len(s) : IsWordChar(s[i]) \/ IsSpace(s[i])})

\* .replaceAll(/\s+/g, ' ')
CollapseSpaces(s) ==
    Keep(s, {i \in 1..Len(s) : ~(IsSpace(s[i]) /\ i > 1 /\ IsSpace(s[i - 1]))})

\* .trim()
Trim(s) ==
    Keep(s, {i \in 1..Len(s) :
                /\ \E j \in 1..i : ~IsSpace(s[j])
                /\ \E j \in i..Len(s) : ~IsSpace(s[j])})

normalizeName(name) ==
    Trim(CollapseSpaces(StripPunctuation(StripSuffixes(LowerCased(name)))))

\* normalizeName is applied to a name
NormalizeOnce ==
    /\ Len(text) = 1
    /\ text' = Append(text, Str(normalizeName(text[1])))
    /\ UNCHANGED <<appVars, schedVars, proc, createVars, matchVars, lateVars>>

\* normalizeName is applied to its own result
NormalizeAgain ==
    /\ Len(text) = 2
    /\ text' = Append(text, Str(normalizeName(text[2])))
    /\ UNCHANGED <<appVars, schedVars, proc, createVars, matchVars, lateVars>>

InitText ==
    /\ InitQueue /\ InitEngines /\ InitDb /\ InitOrch /\ InitClock
    /\ schedRows = <<>>
    /\ jobs = <<>>
    /\ cronTasks = {}
    /\ schedCalls = {}
    /\ schedCount = [tasks |-> 0, calls |-> 0, edits |-> 0]
    /\ fired = <<>>
    /\ proc = "running"
    /\ catalog = <<>>
    /\ created = <<>>
    /\ tasksQueued = 0
    /\ monitorsSpawned = [single |-> 0, batch |-> 0]
    /\ lastCall = <<>>
    /\ businesses = {}
    /\ matchClock = 0
    /\ lastMatch = <<>>
    /\ \E name \in Names : text = <<name>>
    /\ InitLate

NextText == NormalizeOnce \/ NormalizeAgain

SpecText == InitText /\ [][NextText]_vars

\* C29: name normalization is idempotent: normalize(normalize(s)) =
\* normalize(s) for every string s.
C29_NormalizeIdempotent ==
    Len(text) = 3 => text[3] = text[2]

(***************************************************************************)
(* BusinessMatcher.findOrCreate over the Business rows, one call at a      *)
(* time.  An absent string is "", an absent phone <<>>, an absent          *)
(* coordinate NoLoc; a coordinate is a position on one meridian in         *)
(* thousandths of a mile.                                                  *)
(***************************************************************************)
NoLoc == -1

\* 50 meters: `distance < 0.031` miles
NEAR == 31

MatchNames == {<<"L", "o">>, <<"l", ".", "o">>, <<"o", "l">>}
PlaceIds == {"", "ChIJ1"}
RawPhones ==
    {<<>>,
     <<"5", "1", "2", "5", "5", "5", "0", "1", "0", "1">>,
     <<"1", "-", "5", "1", "2", "5", "5", "5", "0", "1", "0", "2">>}
Locations == {NoLoc, 0, NEAR}
Websites == {"", "https://www.Lo.com/"}
Cities == {"", "Austin"}
MatchEngines == {"google_search", "bing_api"}

ParsedBusinesses ==
    [name : MatchNames, googlePlaceId : PlaceIds, phone : RawPhones, loc : Locations,
     website : Websites, city : Cities]

\* utils/phone: the digits of raw, with the country code in front
normalizePhone(raw) ==
    LET IsDigit(ch) == ch \in {"0", "1", "2", "3", "4", "5", "6", "7", "8", "9"}
        digits == SelectSeq(raw, IsDigit)
    IN  IF Len(digits) = 10 THEN <<"+", "1">> \o digits
        ELSE IF Len(digits) = 11 /\ digits[1] = "1" THEN <<"+">> \o digits
        ELSE <<>>

\* utils/text: the host name without protocol and "www.", in lower case
normalizeDomain(url) ==
    CASE url = "https://www.Lo.com/" -> "lo.com"
      [] OTHER -> ""

\* city: { equals: parsed.city, mode: 'insensitive' }
EqualsInsensitive(a, b) ==
    LET lower(c) == IF c = "Austin" THEN "austin" ELSE c
    IN  lower(a) = lower(b)

\* utils/geo, for two points on one meridian
haversineDistance(a, b) == IF a > b THEN a - b ELSE b - a

\* utils/text
RECURSIVE levenshteinDistance(_, _)
levenshteinDistance(a, b) ==
    IF Len(a) = 0 THEN Len(b)
    ELSE IF Len(b) = 0 THEN Len(a)
    ELSE LET m    == Len(a)
             n    == Len(b)
             cost == IF a[m] = b[n] THEN 0 ELSE 1
             del  == levenshteinDistance(SubSeq(a, 1, m - 1), b) + 1
             ins  == levenshteinDistance(a, SubSeq(b, 1, n - 1)) + 1
             sub  == levenshteinDistance(SubSeq(a, 1, m - 1), SubSeq(b, 1, n - 1)) + cost
         IN  IF del <= ins /\ del <= sub THEN del ELSE IF ins <= sub THEN ins ELSE sub

\* const normalized = normalizeName(parsed.name), for the names of the model
normalized == [name \in MatchNames |-> Str(normalizeName(name))]

\* const normalizedPhone = normalizePhone(parsed.phone ?? null)
normalizedPhone == [raw \in RawPhones |-> normalizePhone(raw)]

\* the rows each tier of findOrCreate accepts
PlaceIdHits(parsed) ==
    IF parsed.googlePlaceId # ""
    THEN {b \in businesses : b.googlePlaceId = parsed.googlePlaceId}
    ELSE {}

PhoneHits(parsed) ==
    IF normalizedPhone[parsed.phone] # <<>>
    THEN {b \in businesses : b.phone = normalizedPhone[parsed.phone]}
    ELSE {}

NameLocationHits(parsed) ==
    IF parsed.loc # NoLoc
    THEN {b \in businesses : /\ b.normalizedName = normalized[parsed.name]
                             /\ b.loc # NoLoc
                             /\ haversineDistance(b.loc, parsed.loc) < NEAR}
    ELSE {}

FuzzyNamePhoneHits(parsed) ==
    IF normalizedPhone[parsed.phone] # <<>>
    THEN {b \in businesses :
             /\ b.phone = normalizedPhone[parsed.phone]
             /\ b.normalizedName # <<>>
             /\ levenshteinDistance(normalized[parsed.name], b.normalizedName) <= 3}
    ELSE {}

DomainHits(parsed) ==
    IF normalizeDomain(parsed.website) # "" /\ parsed.city # ""
    THEN {b \in businesses : /\ EqualsInsensitive(b.city, parsed.city)
                             /\ b.website # ""
                             /\ normalizeDomain(b.website) = normalizeDomain(parsed.website)}
    ELSE {}

Match(hits, confidence, matchType) ==
    {[businessId |-> b.id, confidence |-> confidence, matchType |-> matchType] : b \in hits}

NewMatch == {[businessId |-> Cardinality(businesses) + 1, confidence |-> 0, matchType |-> "new"]}

\* a cascade that asks for the phone before the place id
PhoneBeforePlaceId(parsed) ==
    IF PhoneHits(parsed) # {} THEN Match(PhoneHits(parsed), 90, "phone")
    ELSE IF PlaceIdHits(parsed) # {} THEN Match(PlaceIdHits(parsed), 100, "google_place_id")
    ELSE IF NameLocationHits(parsed) # {}
    THEN Match(NameLocationHits(parsed), 95, "normalized_name_location")
    ELSE IF FuzzyNamePhoneHits(parsed) # {}
    THEN Match(FuzzyNamePhoneHits(parsed), 85, "fuzzy_name_phone")
    ELSE IF DomainHits(parsed) # {} THEN Match(DomainHits(parsed), 80, "website_domain")
    ELSE NewMatch

\* the results findOrCreate can return: findFirst and the order of findMany
\* are the database's choice
findOrCreate(parsed) ==
    IF PlaceIdHits(parsed) # {} THEN Match(PlaceIdHits(parsed), 100, "google_place_id")
    ELSE IF PhoneHits(parsed) # {} THEN Match(PhoneHits(parsed), 90, "phone")
    ELSE IF NameLocationHits(parsed) # {}
    THEN Match(NameLocationHits(parsed), 95, "normalized_name_location")
    ELSE IF FuzzyNamePhoneHits(parsed) # {}
    THEN Match(FuzzyNamePhoneHits(parsed), 85, "fuzzy_name_phone")
    ELSE IF DomainHits(parsed) # {} THEN Match(DomainHits(parsed), 80, "website_domain")
    ELSE NewMatch

\* prisma.business.create
createBusiness(parsed, id, t) ==
    [id |-> id, name |-> parsed.name, normalizedName |-> normalized[parsed.name],
     phone |-> normalizedPhone[parsed.phone], website |-> parsed.website,
     city |-> parsed.city, loc |-> parsed.loc, googlePlaceId |-> parsed.googlePlaceId,
     firstSeenAt |-> t, lastSeenAt |-> t]

\* the update of updateLastSeen
updateLastSeen(b, parsed, engineId, t) ==
    [b EXCEPT !.lastSeenAt = t,
              !.phone = IF parsed.phone # <<>> /\ engineId \notin {"bing_api", "bing_local"}
                        THEN normalizedPhone[parsed.phone] ELSE @,
              !.website = IF parsed.website # "" THEN parsed.website ELSE @,
              !.googlePlaceId = IF parsed.googlePlaceId # "" THEN parsed.googlePlaceId ELSE @,
              !.loc = IF parsed.loc # NoLoc THEN parsed.loc ELSE @]

\* the row with the given id
Business(rows, id) == CHOOSE b \in rows : b.id = id

Resolves == IF lastMatch = <<>> THEN 0 ELSE lastMatch.n

\* one findOrCreate call, from its first query to its return
Resolve ==
    /\ Resolves < MaxResolves
    /\ \E parsed \in ParsedBusinesses, engineId \in MatchEngines :
           \E result \in findOrCreate(parsed) :
               /\ businesses' =
                     IF result.matchType = "new"
                     THEN businesses \cup {createBusiness(parsed, result.businessId, matchClock)}
                     ELSE {IF b.id = result.businessId
                           THEN updateLastSeen(b, parsed, engineId, matchClock) ELSE b :
                              b \in businesses}
               /\ lastMatch' = [parsed |-> parsed, engineId |-> engineId, result |-> result,
                                 n |-> Resolves + 1]
    /\ matchClock' = matchClock + 1
    /\ UNCHANGED <<appVars, schedVars, proc, createVars, text, lateVars>>

\* two businesses seen earlier, at time 0
SeenEarlier ==
    {createBusiness([name |-> <<"L", "o">>, googlePlaceId |-> "ChIJ1",
                     phone |-> <<"5", "1", "2", "5", "5", "5", "0", "1", "0", "1">>,
                     loc |-> 0, website |-> "https://www.Lo.com/", city |-> "Austin"], 1, 0),
     createBusiness([name |-> <<"o", "l">>, googlePlaceId |-> "",
                     phone |-> <<"1", "-", "5", "1", "2", "5", "5", "5", "0", "1", "0", "2">>,
                     loc |-> NEAR, website |-> "", city |-> ""], 2, 0)}

InitMatch ==
    /\ InitQueue /\ InitEngines /\ InitDb /\ InitOrch /\ InitClock
    /\ schedRows = <<>>
    /\ jobs = <<>>
    /\ cronTasks = {}
    /\ schedCalls = {}
    /\ schedCount = [tasks |-> 0, calls |-> 0, edits |-> 0]
    /\ fired = <<>>
    /\ proc = "running"
    /\ catalog = <<>>
    /\ created = <<>>
    /\ tasksQueued = 0
    /\ monitorsSpawned = [single |-> 0, batch |-> 0]
    /\ lastCall = <<>>
    /\ businesses \in {{}, SeenEarlier}
    /\ matchClock = 1
    /\ lastMatch = <<>>
    /\ text = <<>>
    /\ InitLate

NextMatch == Resolve

SpecMatch == InitMatch /\ [][NextMatch]_vars

\* the step is a findOrCreate call
Resolved == lastMatch' # lastMatch

\* the step resolves the parsed business of the call before, for the same engine
ResolvedAgain ==
    /\ lastMatch # <<>>
    /\ Resolved
    /\ lastMatch'.parsed = lastMatch.parsed
    /\ lastMatch'.engineId = lastMatch.engineId

\* C27: matcher stability: resolving the same parsed business twice in a row
\* yields the same business id both times; the second call creates no new
\* business, leaves firstSeenAt unchanged and advances lastSeenAt.
C27_MatcherStability ==
    [][ResolvedAgain =>
          LET id == lastMatch.result.businessId
          IN  /\ lastMatch'.result.businessId = id
              /\ lastMatch'.result.matchType # "new"
              /\ Business(businesses', id).firstSeenAt = Business(businesses, id).firstSeenAt
              /\ Business(businesses', id).lastSeenAt > Business(businesses, id).lastSeenAt]_vars

\* the tiers in the order of the claim, each with the rows it accepts
TierHits(parsed) ==
    <<[matchType |-> "google_place_id", hits |-> PlaceIdHits(parsed)],
      [matchType |-> "phone", hits |-> PhoneHits(parsed)],
      [matchType |-> "normalized_name_location", hits |-> NameLocationHits(parsed)],
      [matchType |-> "fuzzy_name_phone", hits |-> FuzzyNamePhoneHits(parsed)],
      [matchType |-> "website_domain", hits |-> DomainHits(parsed)]>>

\* C28: the tiers are tried in the order 1 (googlePlaceId), 2 (phone), 3 (name
\* and location), 3.5 (phone and close name), 4 (domain and city), 5
\* (create) and the first tier that hits decides: the result is a row of the
\* first tier with a hit, a new business if no tier hits, and a googlePlaceId
\* hit is returned with confidence 100 whatever row the phone matches.
C28_FirstTierWins ==
    [][Resolved =>
          LET tiers  == TierHits(lastMatch'.parsed)
              result == lastMatch'.result
          IN  /\ \A t \in 1..Len(tiers) :
                     (tiers[t].hits # {} /\ \A u \in 1..(t - 1) : tiers[u].hits = {})
                     => /\ result.matchType = tiers[t].matchType
                        /\ result.businessId \in {b.id : b \in tiers[t].hits}
              /\ (\A t \in 1..Len(tiers) : tiers[t].hits = {}) => result.matchType = "new"
              /\ tiers[1].hits # {} => result.confidence = 100]_vars

\* a parsed business whose googlePlaceId is that of one row and whose phone
\* is that of another row has been resolved to the row with the googlePlaceId
C28_Witness ==
    /\ lastMatch # <<>>
    /\ lastMatch.result.matchType = "google_place_id"
    /\ lastMatch.result.confidence = 100
    /\ \E b \in businesses :
           /\ b.id # lastMatch.result.businessId
           /\ b.phone # <<>>
           /\ b.phone = normalizePhone(lastMatch.parsed.phone)
           /\ b.googlePlaceId # lastMatch.parsed.googlePlaceId

(***************************************************************************)
(* Engine budgets.                                                         *)
(***************************************************************************)
\* C31: the requests of the day summed over the Google-group engines never
\* exceed the group cap, also when workers of several Google engines run
\* at the same time.
C31_GroupTotalWithinCap == getGoogleDailyTotal(engineState) <= DailyLimit

StillMonitoring(m, ms) == \E m2 \in ms : m2.kind = m.kind /\ m2.ids = m.ids

\* C32: an error inside an iteration of a monitor does not stop the monitor:
\* a monitor that ends before its time-out has expired leaves every one of
\* its scans terminal, and none of them failed with the error's message.
C32_MonitorSurvivesError ==
    [][\A m \in monitors :
          (m.polls < MaxPolls /\ ~StillMonitoring(m, monitors'))
          => \A s \in m.ids : /\ scans'[s].status \in Terminal
                              /\ scans'[s].errorMessage # "database error"]_vars

(***************************************************************************)
(* Matcher: the merge on a hit.                                            *)
(***************************************************************************)
\* C36: on a matcher hit the website, the place id and the coordinates of
\* the matched row are written only when the stored value was null, and the
\* phone only for an engine that is not a Bing engine.
C36_MergeFillsNullsOnly ==
    [][(Resolved /\ lastMatch'.result.matchType # "new")
          => \A b \in businesses : \A b2 \in businesses' :
                b2.id = b.id
                => /\ b2.website # b.website => b.website = ""
                   /\ b2.googlePlaceId # b.googlePlaceId => b.googlePlaceId = ""
                   /\ b2.loc # b.loc => b.loc = NoLoc
                   /\ b2.phone # b.phone => lastMatch'.engineId # "bing_api"]_vars

(***************************************************************************)
(* createScanRecord: points, tasks, and the order of its writes.           *)
(***************************************************************************)
\* gridRow and gridCol of the ScanPoint p of scan s
gridCell(s, p) == generateGrid(scans[s].gridSize)[p]

\* the step persists the ScanPoints of scan s
PersistsPoints(s) == EveryPoint(s) = {} /\ points'[s] # points[s]

\* the step marks scan s running and stamps startedAt
FlipsToRunning(s) == ~scans[s].startedAt /\ scans'[s].startedAt

ReadsStatus ==
    /\ now' = now
    /\ engineCall'.phase = engineCall.phase
    /\ engineCall'.n = engineCall.n
    /\ engineCall'.last.op = "getStatus"

\* C34: an engine's status reads blocked exactly while blockedUntil is in
\* the future, otherwise throttled exactly when its hour or day counter has
\* reached its limit, otherwise healthy; canMakeRequest is true iff the
\* status is healthy; once now >= blockedUntil the engine reads as no longer
\* blocked, without any explicit action.
C34_StatusDerivation ==
    [][ReadsStatus =>
          LET status   == engineCall'.last.status
              inFuture == captcha.blockedUntil # 0 /\ now < captcha.blockedUntil
              hour     == IF now >= engine.hourResetAt THEN 0 ELSE engine.requestsThisHour
              day      == IF now >= engine.dayResetAt THEN 0 ELSE engine.requestsToday
              atLimit  == hour >= MaxPerHour \/ day >= DailyLimit
          IN  /\ status = "blocked" <=> inFuture
              /\ status = "throttled" <=> (~inFuture /\ atLimit)
              /\ status = "healthy" <=> (~inFuture /\ ~atLimit)
              /\ engineCall'.last.can <=> status = "healthy"
              /\ (captcha.blockedUntil # 0 /\ now >= captcha.blockedUntil)
                 => status # "blocked"]_vars

\* the engine was blocked and its pause is over: it reads throttled, by its
\* counter of the day, and cannot make a request
C34_Witness ==
    /\ engineCall.last.op = "getStatus"
    /\ engineCall.last.status = "throttled"
    /\ ~engineCall.last.can
    /\ captcha.captchaCount > 0
    /\ captcha.blockedUntil = 0
    /\ engine.requestsThisHour = 0

\* the step is the settling of the request of a search() call
Settles == engineCall.phase = "sent" /\ engineCall'.phase = "idle"

\* C35: a successful request increments the hour counter and the day
\* counter of the engine by exactly one each (counted from zero when the
\* hour or the day has ended meanwhile) and resets the error streak to 0; a
\* request that fails with another error increments the error streak by
\* one, leaves both counters unchanged and propagates the error.
C35_RequestEffects ==
    [][Settles =>
          LET last == engineCall'.last
              hour == IF now >= engine.hourResetAt THEN 0 ELSE engine.requestsThisHour
              day  == IF now >= engine.dayResetAt THEN 0 ELSE engine.requestsToday
          IN  /\ last.outcome = "ok"
                 => /\ engine'.requestsThisHour = hour + 1
                    /\ engine'.requestsToday = day + 1
                    /\ engine'.errorCount = 0
                    /\ ~last.thrown
              /\ last.outcome = "error"
                 => /\ engine'.errorCount = engine.errorCount + 1
                    /\ engine'.requestsThisHour = engine.requestsThisHour
                    /\ engine'.requestsToday = engine.requestsToday
                    /\ captcha' = captcha
                    /\ last.thrown]_vars

\* two requests in a row have failed with an error, after a counted request
C35_Witness ==
    /\ engineCall.last.outcome = "error"
    /\ engineCall.last.thrown
    /\ engine.errorCount = 2
    /\ engine.requestsToday = 1

(***************************************************************************)
(* Deleting a schedule.                                                    *)
(***************************************************************************)
\* C37: after a schedule has been deleted through the API no cron job for
\* its id remains registered, so the schedule never fires again.
C37_DeletedScheduleHasNoJob ==
    \A id \in ScheduleIds :
        schedRows[id] = NoSchedule => (LiveTasks(id) = {} /\ jobs[id] = 0)

(***************************************************************************)
(* BusinessMatcher.findOrCreate called by task handlers that run at the    *)
(* same time (workers of different engines).  A call is cut at its awaits: *)
(* each query of a tier, the update of updateLastSeen and the create are   *)
(* steps of their own, and the steps of the calls interleave.              *)
(***************************************************************************)
\* the parsed businesses the concurrent handlers resolve
ConcurrentParsed ==
    {parsed \in ParsedBusinesses :
        /\ parsed.name \in {<<"L", "o">>, <<"o", "l">>}
        /\ parsed.loc = NoLoc
        /\ parsed.website = ""
        /\ parsed.city = ""}

\* the confidence findOrCreate returns with each match type
Confidence ==
    [google_place_id |-> 100, phone |-> 90, normalized_name_location |-> 95,
     fuzzy_name_phone |-> 85, website_domain |-> 80, new |-> 0]

\* the rows that denote the parsed business: same googlePlaceId or same
\* normalized phone
Denoting(parsed) ==
    {b \in businesses :
        \/ parsed.googlePlaceId # "" /\ b.googlePlaceId = parsed.googlePlaceId
        \/ normalizedPhone[parsed.phone] # <<>> /\ b.phone = normalizedPhone[parsed.phone]}

NoMatch == [businessId |-> 0, confidence |-> 0, matchType |-> "none"]

\* a call of findOrCreate at its entry; atStart records the rows the
\* database held then, phoneRows the rows that had the parsed phone when the
\* call queried tier 2
NewResolve(parsed, engineId) ==
    [parsed |-> parsed, engineId |-> engineId, pc |-> "google_place_id", match |-> NoMatch,
     atStart |-> [denoting |-> {b.id : b \in Denoting(parsed)},
                  fuzzy |-> {b.id : b \in FuzzyNamePhoneHits(parsed)}],
     phoneRows |-> {}]

\* the step after the query of a tier that found nothing
NextTier(pc) ==
    CASE pc = "google_place_id"          -> "phone"
      [] pc = "phone"                    -> "normalized_name_location"
      [] pc = "normalized_name_location" -> "fuzzy_name_phone"
      [] pc = "fuzzy_name_phone"         -> "website_domain"
      [] pc = "website_domain"           -> "create"

Tiers == {"google_place_id", "phone", "normalized_name_location", "fuzzy_name_phone",
          "website_domain"}

\* googlePlaceId is a unique field of Business (findUnique asks by it): a
\* write that would give a second row the same googlePlaceId is rejected
PlaceIdTaken(parsed, id) ==
    /\ parsed.googlePlaceId # ""
    /\ \E b \in businesses : b.id # id /\ b.googlePlaceId = parsed.googlePlaceId

\* a handler calls findOrCreate
ResolveStart ==
    /\ Len(resolving) < MaxHandlers
    /\ \E parsed \in ConcurrentParsed, engineId \in MatchEngines :
          resolving' = Append(resolving, NewResolve(parsed, engineId))
    /\ UNCHANGED <<businesses, matchClock, lastMatch>>
    /\ UNCHANGED <<appVars, schedVars, proc, createVars, text, engine, engineCall>>

\* the database answers the query of the tier a call is at
ResolveQuery ==
    /\ \E h \in DOMAIN resolving :
          LET call  == resolving[h]
              tiers == TierHits(call.parsed)
              tier  == CHOOSE t \in 1..Len(tiers) : tiers[t].matchType = call.pc
              seen  == IF call.pc = "phone"
                       THEN {b.id : b \in {x \in businesses :
                                               x.phone = normalizedPhone[call.parsed.phone]}}
                       ELSE call.phoneRows
          IN  /\ call.pc \in Tiers
              /\ IF tiers[tier].hits = {}
                 THEN resolving' = [resolving EXCEPT ![h].pc = NextTier(call.pc),
                                                     ![h].phoneRows = seen]
                 ELSE \E b \in tiers[tier].hits :
                         resolving' = [resolving EXCEPT
                            ![h].pc = "update",
                            ![h].phoneRows = seen,
                            ![h].match = [businessId |-> b.id,
                                          confidence |-> Confidence[call.pc],
                                          matchType |-> call.pc]]
    /\ UNCHANGED <<businesses, matchClock, lastMatch>>
    /\ UNCHANGED <<appVars, schedVars, proc, createVars, text, engine, engineCall>>

\* the update of updateLastSeen executes and findOrCreate returns the match,
\* or the update is rejected and findOrCreate throws
ResolveUpdate ==
    /\ \E h \in DOMAIN resolving :
          LET call == resolving[h]
          IN  /\ call.pc = "update"
              /\ IF PlaceIdTaken(call.parsed, call.match.businessId)
                 THEN /\ resolving' = [resolving EXCEPT ![h].pc = "failed"]
                      /\ UNCHANGED businesses
                 ELSE /\ resolving' = [resolving EXCEPT ![h].pc = "done"]
                      /\ businesses' =
                            {IF b.id = call.match.businessId
                             THEN updateLastSeen(b, call.parsed, call.engineId, matchClock)
                             ELSE b : b \in businesses}
    /\ matchClock' = matchClock + 1
    /\ UNCHANGED lastMatch
    /\ UNCHANGED <<appVars, schedVars, proc, createVars, text, engine, engineCall>>

\* no tier found a row: prisma.business.create executes and findOrCreate
\* returns the new row, or the create is rejected and findOrCreate throws
ResolveCreate ==
    /\ \E h \in DOMAIN resolving :
          LET call == resolving[h]
              id   == Cardinality(businesses) + 1
          IN  /\ call.pc = "create"
              /\ IF PlaceIdTaken(call.parsed, id)
                 THEN /\ resolving' = [resolving EXCEPT ![h].pc = "failed"]
                      /\ UNCHANGED businesses
                 ELSE /\ resolving' = [resolving EXCEPT
                            ![h].pc = "done",
                            ![h].match = [businessId |-> id, confidence |-> Confidence["new"],
                                          matchType |-> "new"]]
                      /\ businesses' = businesses \cup
                                         {createBusiness(call.parsed, id, matchClock)}
    /\ matchClock' = matchClock + 1
    /\ UNCHANGED lastMatch
    /\ UNCHANGED <<appVars, schedVars, proc, createVars, text, engine, engineCall>>

InitConcurrent ==
    /\ InitQueue /\ InitEngines /\ InitDb /\ InitOrch /\ InitClock
    /\ schedRows = <<>>
    /\ jobs = <<>>
    /\ cronTasks = {}
    /\ schedCalls = {}
    /\ schedCount = [tasks |-> 0, calls |-> 0, edits |-> 0]
    /\ fired = <<>>
    /\ proc = "running"
    /\ catalog = <<>>
    /\ created = <<>>
    /\ tasksQueued = 0
    /\ monitorsSpawned = [single |-> 0, batch |-> 0]
    /\ lastCall = <<>>
    /\ businesses \in {{}, SeenEarlier}
    /\ matchClock = 1
    /\ lastMatch = <<>>
    /\ text = <<>>
    /\ InitLate

NextConcurrent == ResolveStart \/ ResolveQuery \/ ResolveUpdate \/ ResolveCreate

SpecConcurrent == InitConcurrent /\ [][NextConcurrent]_vars

\* the calls of findOrCreate that have returned or thrown
Finished == {h \in DOMAIN resolving : resolving[h].pc \in {"done", "failed"}}

\* two parsed businesses denote the same business
SameBusiness(p, q) ==
    \/ p.googlePlaceId # "" /\ p.googlePlaceId = q.googlePlaceId
    \/ normalizedPhone[p.phone] # <<>> /\ normalizedPhone[p.phone] = normalizedPhone[q.phone]

\* C38: when two handlers running at the same time resolve parsed
\* businesses that denote the same business, not yet in the database (same
\* normalized phone or same googlePlaceId), exactly one Business row exists
\* for it afterwards and both calls return that row's id.
C38_OneRowForConcurrentResolves ==
    \A g \in Finished : \A h \in Finished :
        (/\ g < h
         /\ resolving[g].engineId # resolving[h].engineId
         /\ SameBusiness(resolving[g].parsed, resolving[h].parsed)
         /\ resolving[g].atStart.denoting = {}
         /\ resolving[h].atStart.denoting = {})
        => /\ resolving[g].pc = "done"
           /\ resolving[h].pc = "done"
           /\ resolving[g].match.businessId = resolving[h].match.businessId
           /\ Cardinality(Denoting(resolving[g].parsed) \cup Denoting(resolving[h].parsed)) = 1

\* the calls that have returned a match
Returned == {h \in DOMAIN resolving : resolving[h].pc = "done"}

FuzzyTierOnlyAfterRace ==
    \A h \in Returned :
        LET call == resolving[h]
        IN  call.match.matchType = "fuzzy_name_phone"
            => /\ call.match.confidence = 85
               /\ call.match.businessId \notin call.phoneRows
               /\ Len(resolving) > 1

\* a call has returned a business by tier 3.5: the row was created by the
\* other call between the two phone queries of this one
FuzzyTierAfterRace ==
    \E g \in Returned : \E h \in Returned :
        /\ resolving[h].match.matchType = "fuzzy_name_phone"
        /\ resolving[g].match.matchType = "new"
        /\ resolving[g].match.businessId = resolving[h].match.businessId

====
